---- MODULE Spec2Model ----
(***************************************************************************)
(* A model of the U8 archive library (src/u8.py): the archive tree kept as *)
(* nested dictionaries of ArcFile leaves, the path mutation API, the       *)
(* lazily refreshed flat index, and the binary encoder and decoder.        *)
(*                                                                         *)
(* Python objects live in a heap: a dict or an ArcFile is a heap cell and  *)
(* a dict entry holds a reference (an index into the heap), so that two    *)
(* entries can hold the very same object.  Strings (names, paths) are      *)
(* sequences of character codes, byte strings are sequences of 0..255.     *)
(***************************************************************************)
EXTENDS Integers, Sequences, FiniteSets, TLC

\* ------------------------------------------------------------------ bounds
\* Most objects (directories and files, the root included) one archive holds.
MaxObjs == 4
\* Cap of the modification counter (the code's counter is unbounded).
MaxMod == 3
\* Longest path (in segments) handed to an operation.
MaxDepth == MaxObjs - 2
\* The objects of a tree in the specification of the index readers.
MaxIndexObjs == 3
\* The objects of the two archives in the specification of item assignment.
MaxShareObjs == 3
\* The largest number of objects of a tree whose written file is damaged
MaxDamageObjs == 3
\* The largest number of objects of a tree whose nesting is decoded
MaxNestObjs == 6

\* --------------------------------------------------------- program constants
\* The 32-byte alignment boundary of to_bytes (0x20).
Boundary == 32
\* Offset of the FST in the output of to_bytes (0x20).
FstOffset == 32
\* Size of one FST record.
EntrySize == 12

\* Character codes.
Slash == 47
Dot == 46
Nul == 0

VARIABLES
    heap,    \* Seq of heap cells: the dicts and ArcFiles of all archives
    arcs,    \* archive id -> the fields of that Arc object
    stream   \* the bytes the last to_bytes returned (<<>> before any)

vars == <<heap, arcs, stream>>

\* ----------------------------------------------------------------- sequences
Range(s) == {s[i] : i \in DOMAIN s}

RECURSIVE Flat(_)
\* The concatenation of a sequence of sequences.
Flat(ss) == IF ss = <<>> THEN <<>> ELSE Head(ss) \o Flat(Tail(ss))

Rep(x, n) == [i \in 1..n |-> x]

Max(a, b) == IF a >= b THEN a ELSE b

\* x in s, for a sequence s
InSeq(x, s) == \E i \in DOMAIN s : s[i] = x

\* Sequences over S of length 0..n.
SeqUpTo(S, n) == UNION {[1..k -> S] : k \in 0..n}

\* ------------------------------------------------------------ Python dicts
\* A dict is the sequence of its entries [key, val] in insertion order.
DictHas(d, k) == \E i \in DOMAIN d : d[i].key = k
DictPos(d, k) == CHOOSE i \in DOMAIN d : d[i].key = k
DictGet(d, k) == d[DictPos(d, k)].val
\* d[k] = v: an existing key keeps its position.
DictSet(d, k, v) ==
    IF DictHas(d, k) THEN [d EXCEPT ![DictPos(d, k)].val = v]
    ELSE Append(d, [key |-> k, val |-> v])
\* del d[k]
DictDel(d, k) == SelectSeq(d, LAMBDA e : e.key /= k)
DictKeys(d) == [i \in DOMAIN d |-> d[i].key]

\* ------------------------------------------------------------------- heap
DirCell(items) == [kind |-> "dict", items |-> items, name |-> <<>>, data |-> <<>>]
FileCell(name, data) == [kind |-> "file", items |-> <<>>, name |-> name, data |-> data]

IsDir(h, r) == h[r].kind = "dict"

\* A new cell: the heap with it, and its reference.
Alloc(h, cell) == [heap |-> Append(h, cell), ref |-> Len(h) + 1]

\* d[k] = v on the dict at reference r
HeapSet(h, r, k, v) == [h EXCEPT ![r].items = DictSet(@, k, v)]
HeapDel(h, r, k) == [h EXCEPT ![r].items = DictDel(@, k)]

Children(h, r) == [i \in DOMAIN h[r].items |-> h[r].items[i].val]

RECURSIVE Visit(_, _, _)
\* The cells reachable from the references in todo, in first-visit depth-first
\* order (terminates on shared and on cyclic structures).
Visit(h, todo, seen) ==
    IF todo = <<>> THEN seen
    ELSE IF InSeq(Head(todo), seen) THEN Visit(h, Tail(todo), seen)
    ELSE Visit(h, Children(h, Head(todo)) \o Tail(todo), Append(seen, Head(todo)))

Reach(h, r) == Visit(h, <<r>>, <<>>)

\* ------------------------------------------------------------------ paths
\* A path argument: None, a list of segments, or a '/'-separated string.
NonePath == [form |-> "none", segs |-> <<>>, chars |-> <<>>]
ListPath(segs) == [form |-> "list", segs |-> segs, chars |-> <<>>]
StrPath(chars) == [form |-> "str", segs |-> <<>>, chars |-> chars]

RECURSIVE SplitFrom(_, _, _)
\* str.split(sep) on s, cur being the segment read so far
SplitFrom(s, sep, cur) ==
    IF s = <<>> THEN <<cur>>
    ELSE IF Head(s) = sep THEN <<cur>> \o SplitFrom(Tail(s), sep, <<>>)
    ELSE SplitFrom(Tail(s), sep, Append(cur, Head(s)))

Split(s, sep) == SplitFrom(s, sep, <<>>)

\* [seg for seg in path.split("/") if seg]
SplitPath(chars) == SelectSeq(Split(chars, Slash), LAMBDA seg : seg /= <<>>)

RECURSIVE JoinSlash(_)
\* The segments joined by '/', as a caller writes a path string.
JoinSlash(segs) ==
    IF segs = <<>> THEN <<>>
    ELSE IF Len(segs) = 1 THEN segs[1]
    ELSE segs[1] \o <<Slash>> \o JoinSlash(Tail(segs))

\* The segment list mkdir, rename, delete and move work on: a string is split
\* and its empty segments dropped, a list is taken as it is.
Segments(path) == IF path.form = "str" THEN SplitPath(path.chars) ELSE path.segs

\* The result of a call: the heap and archives it leaves, what it raised ("ok" when
\* it returned) and what it returned.
Result(h, A, status) == [heap |-> h, arcs |-> A, status |-> status, obs |-> <<>>]
Observed(h, A, obs) == [heap |-> h, arcs |-> A, status |-> "ok", obs |-> obs]

RECURSIVE GetOrCreateFrom(_, _, _)

\* Mutant: the test "seg not in current_dict" is lost, every segment gets a new dict.
GetOrCreateFromClobber(h, cur, segs) ==
    IF segs = <<>> THEN [heap |-> h, ref |-> cur, err |-> "ok"]
    ELSE GetOrCreateFrom(HeapSet(Append(h, DirCell(<<>>)), cur, Head(segs), Len(h) + 1),
                         Len(h) + 1, Tail(segs))

\* Mutant: a segment that exists as a file is overwritten by a new dict.
GetOrCreateFromOverwrite(h, cur, segs) ==
    IF segs = <<>> THEN [heap |-> h, ref |-> cur, err |-> "ok"]
    ELSE IF ~DictHas(h[cur].items, Head(segs))
            \/ ~IsDir(h, DictGet(h[cur].items, Head(segs))) THEN
        GetOrCreateFrom(HeapSet(Append(h, DirCell(<<>>)), cur, Head(segs), Len(h) + 1),
                        Len(h) + 1, Tail(segs))
    ELSE GetOrCreateFrom(h, DictGet(h[cur].items, Head(segs)), Tail(segs))

\* The loop of _get_or_create_directory from the dict cur: the heap as the loop
\* leaves it (the directories created before a ValueError stay), the final dict.
GetOrCreateFrom(h, cur, segs) ==
    IF segs = <<>> THEN [heap |-> h, ref |-> cur, err |-> "ok"]
    ELSE IF ~DictHas(h[cur].items, Head(segs)) THEN
        LET n == Alloc(h, DirCell(<<>>))
        IN  GetOrCreateFrom(HeapSet(n.heap, cur, Head(segs), n.ref), n.ref, Tail(segs))
    ELSE IF ~IsDir(h, DictGet(h[cur].items, Head(segs))) THEN
        [heap |-> h, ref |-> cur, err |-> "ValueError"]
    ELSE GetOrCreateFrom(h, DictGet(h[cur].items, Head(segs)), Tail(segs))

GetOrCreateDirectory(h, root, path) ==
    IF path.form = "none" THEN [heap |-> h, ref |-> root, err |-> "ok"]
    ELSE GetOrCreateFrom(h, root, Segments(path))

RECURSIVE WalkParents(_, _, _)
\* The descent of rename, delete and move through the parent segments.
WalkParents(h, cur, segs) ==
    IF segs = <<>> THEN [ref |-> cur, err |-> "ok"]
    ELSE IF ~DictHas(h[cur].items, Head(segs)) THEN [ref |-> cur, err |-> "KeyError"]
    ELSE IF ~IsDir(h, DictGet(h[cur].items, Head(segs))) THEN
        [ref |-> cur, err |-> "ValueError"]
    ELSE WalkParents(h, DictGet(h[cur].items, Head(segs)), Tail(segs))

Front(s) == SubSeq(s, 1, Len(s) - 1)
Last(s) == s[Len(s)]

\* -------------------------------------------------------------- operations
\* (A stage of a method that uses an intermediate result several times takes it
\* as a parameter.)
BumpMod(A, a, n) == [A EXCEPT ![a].mod_count = @ + n]

\* mkdir after _get_or_create_directory returned or raised (r)
MkdirFinish(r, A, a) ==
    IF r.err /= "ok" THEN Result(r.heap, A, r.err)
    ELSE Result(r.heap, BumpMod(A, a, 1), "ok")

MkdirOp(h, A, a, path) == MkdirFinish(GetOrCreateDirectory(h, A[a].files, path), A, a)

\* Mutant: the test "filename in target_dir" is lost.
AppendInsertNoCheck(r, A, a, filename, file) ==
    IF r.err /= "ok" THEN Result(r.heap, A, r.err)
    ELSE Result(HeapSet(Append(r.heap, file), r.ref, filename, Len(r.heap) + 1),
                BumpMod(A, a, 1), "ok")

\* _append_internal after _get_or_create_directory returned or raised (r)
AppendInsert(r, A, a, filename, file) ==
    IF r.err /= "ok" THEN Result(r.heap, A, r.err)
    ELSE IF DictHas(r.heap[r.ref].items, filename) THEN Result(r.heap, A, "KeyError")
    ELSE Result(HeapSet(Append(r.heap, file), r.ref, filename, Len(r.heap) + 1),
                BumpMod(A, a, 1), "ok")

AppendInternal(h, A, a, filename, file, path) ==
    AppendInsert(GetOrCreateDirectory(h, A[a].files, path), A, a, filename, file)

\* append_file with raw_data=True
AppendFileOp(h, A, a, filename, data, path) ==
    AppendInternal(h, A, a, filename, FileCell(filename, data), path)

RECURSIVE BuildRenamed(_, _, _, _, _)
\* The rebuilding loop of _rename_dict_key_in_place: new_dict filled key by key.
BuildRenamed(keys, rest, new_key, val, new_dict) ==
    IF keys = <<>> THEN new_dict
    ELSE BuildRenamed(Tail(keys), rest, new_key, val,
            DictSet(new_dict, Head(keys),
                    IF Head(keys) = new_key THEN val ELSE DictGet(rest, Head(keys))))

\* Mutant: the value is stored under new_key after the old key is deleted, and
\* so moves behind the other entries.
RenameDictKeyAppend(d, old_key, new_key) ==
    IF ~DictHas(d, old_key) THEN [items |-> d, err |-> "KeyError"]
    ELSE IF DictHas(d, new_key) THEN [items |-> d, err |-> "KeyError"]
    ELSE [items |-> DictSet(DictDel(d, old_key), new_key, DictGet(d, old_key)),
          err |-> "ok"]

\* Mutant: the old key is deleted before new_key is tested.
RenameDictKeyLateCheck(d, old_key, new_key) ==
    IF ~DictHas(d, old_key) THEN [items |-> d, err |-> "KeyError"]
    ELSE IF DictHas(d, new_key) THEN [items |-> DictDel(d, old_key), err |-> "KeyError"]
    ELSE [items |-> BuildRenamed([DictKeys(d) EXCEPT ![DictPos(d, old_key)] = new_key],
                                 DictDel(d, old_key), new_key, DictGet(d, old_key), <<>>),
          err |-> "ok"]

\* _rename_dict_key_in_place on the entries d: the entries as the call leaves them,
\* and what it raised.
RenameDictKeyInPlace(d, old_key, new_key) ==
    IF ~DictHas(d, old_key) THEN [items |-> d, err |-> "KeyError"]
    ELSE IF DictHas(d, new_key) THEN [items |-> d, err |-> "KeyError"]
    ELSE [items |-> BuildRenamed([DictKeys(d) EXCEPT ![DictPos(d, old_key)] = new_key],
                                 DictDel(d, old_key), new_key, DictGet(d, old_key), <<>>),
          err |-> "ok"]

\* rename after _rename_dict_key_in_place returned or raised (r) on the dict at ref
RenameFinish(h, A, a, ref, r) ==
    IF r.err /= "ok" THEN Result([h EXCEPT ![ref].items = r.items], A, r.err)
    ELSE Result([h EXCEPT ![ref].items = r.items], BumpMod(A, a, 1), "ok")

\* rename after the descent through the parents (w)
RenameAt(h, A, a, w, old_key, new_name) ==
    IF w.err /= "ok" THEN Result(h, A, w.err)
    ELSE IF ~DictHas(h[w.ref].items, old_key) THEN Result(h, A, "KeyError")
    ELSE RenameFinish(h, A, a, w.ref, RenameDictKeyInPlace(h[w.ref].items, old_key, new_name))

RenameSegs(h, A, a, segs, new_name) ==
    IF segs = <<>> THEN Result(h, A, "ValueError")
    ELSE RenameAt(h, A, a, WalkParents(h, A[a].files, Front(segs)), Last(segs), new_name)

RenameOp(h, A, a, path, new_name) == RenameSegs(h, A, a, Segments(path), new_name)

\* delete removing the entry the parent dict holds last, whatever its name
DeleteAtPopLast(h, A, a, w, to_remove) ==
    IF w.err /= "ok" THEN Result(h, A, w.err)
    ELSE IF ~DictHas(h[w.ref].items, to_remove) THEN Result(h, A, "KeyError")
    ELSE Result(HeapDel(h, w.ref, Last(DictKeys(h[w.ref].items))), BumpMod(A, a, 1), "ok")

\* delete after the descent through the parents (w)
DeleteAt(h, A, a, w, to_remove) ==
    IF w.err /= "ok" THEN Result(h, A, w.err)
    ELSE IF ~DictHas(h[w.ref].items, to_remove) THEN Result(h, A, "KeyError")
    ELSE Result(HeapDel(h, w.ref, to_remove), BumpMod(A, a, 1), "ok")

DeleteSegs(h, A, a, segs) ==
    IF segs = <<>> THEN Result(h, A, "ValueError")
    ELSE DeleteAt(h, A, a, WalkParents(h, A[a].files, Front(segs)), Last(segs))

DeleteOp(h, A, a, path) == DeleteSegs(h, A, a, Segments(path))

\* move after _get_or_create_directory(dest_parents) returned or raised (g): the
\* element is already popped from its parent.
MoveInsert(g, A, a, element, dest_name) ==
    IF g.err /= "ok" THEN Result(g.heap, A, g.err)
    ELSE IF DictHas(g.heap[g.ref].items, dest_name) THEN Result(g.heap, A, "KeyError")
    ELSE Result(HeapSet(g.heap, g.ref, dest_name, element), BumpMod(A, a, 1), "ok")

\* move after the descent through the source's parents (w)
MoveFrom(h, A, a, w, src_name, dest) ==
    IF w.err /= "ok" THEN Result(h, A, w.err)
    ELSE IF ~DictHas(h[w.ref].items, src_name) THEN Result(h, A, "KeyError")
    ELSE MoveInsert(GetOrCreateFrom(HeapDel(h, w.ref, src_name), A[a].files, Front(dest)),
                    BumpMod(A, a, 1), a, DictGet(h[w.ref].items, src_name), Last(dest))

MoveSegs(h, A, a, src, dest) ==
    IF src = <<>> \/ dest = <<>> THEN Result(h, A, "ValueError")
    ELSE MoveFrom(h, A, a, WalkParents(h, A[a].files, Front(src)), Last(src), dest)

MoveOp(h, A, a, src_path, dest_path) ==
    MoveSegs(h, A, a, Segments(src_path), Segments(dest_path))

\* The values handed to __setitem__: None, an Arc, an ArcFile built by the caller,
\* an ArcFile object already held by an archive, or anything else.
NoneValue == [kind |-> "none", arc |-> 0, ref |-> 0, name |-> <<>>, data |-> <<>>]
ArcValue(b) == [kind |-> "arc", arc |-> b, ref |-> 0, name |-> <<>>, data |-> <<>>]
NewFileValue(name, data) == [kind |-> "file", arc |-> 0, ref |-> 0, name |-> name, data |-> data]
HeldFileValue(h, r) ==
    [kind |-> "held", arc |-> 0, ref |-> r, name |-> h[r].name, data |-> h[r].data]
OtherValue == [kind |-> "other", arc |-> 0, ref |-> 0, name |-> <<>>, data |-> <<>>]

IsFileValue(value) == value.kind \in {"file", "held"}

\* The heap holding the ArcFile value, and the reference to it.
FileRef(h, value) ==
    IF value.kind = "held" THEN [heap |-> h, ref |-> value.ref]
    ELSE Alloc(h, FileCell(value.name, value.data))

\* The assignments of __setitem__, the counter already incremented (A1); f is the
\* ArcFile value on the heap.
SetItemStore(h, A, A1, a, root, k, value, f) ==
    IF DictHas(h[root].items, k) /\ IsDir(h, DictGet(h[root].items, k)) THEN
        IF IsFileValue(value)
        THEN Result(HeapSet(f.heap, DictGet(h[root].items, k), value.name, f.ref), A1, "ok")
        ELSE Result(h, A1, "AttributeError")
    ELSE IF value.kind = "none" THEN
        Result(HeapSet(Append(h, DirCell(<<>>)), root, k, Len(h) + 1), A1, "ok")
    ELSE IF value.kind = "arc" THEN
        Result(HeapSet(h, root, k, A[value.arc].files), A1, "ok")
    ELSE IF IsFileValue(value) THEN
        Result(HeapSet(f.heap, root, k, f.ref), A1, "ok")
    ELSE Result(h, BumpMod(A1, a, -1), "ValueError")

\* Mutant: the test "value is self" is lost.
SetItemOpNoSelfCheck(h, A, a, key, value) ==
    IF key.form /= "str" THEN Result(h, A, "KeyError")
    ELSE SetItemStore(h, A, BumpMod(A, a, 1), a, A[a].files, key.chars, value,
                      IF IsFileValue(value) THEN FileRef(h, value) ELSE [heap |-> h, ref |-> 0])

\* __setitem__; key is a path argument, a str being the key itself (never split).
SetItemOp(h, A, a, key, value) ==
    IF value.kind = "arc" /\ value.arc = a THEN Result(h, A, "RecursionError")
    ELSE IF key.form /= "str" THEN Result(h, A, "KeyError")
    ELSE SetItemStore(h, A, BumpMod(A, a, 1), a, A[a].files, key.chars, value,
                      IF IsFileValue(value) THEN FileRef(h, value) ELSE [heap |-> h, ref |-> 0])

\* ------------------------------------------------------------- flat index
\* os.path.join(a, p) (posixpath)
PathJoin(a, p) ==
    IF p /= <<>> /\ p[1] = Slash THEN p
    ELSE IF a = <<>> \/ a[Len(a)] = Slash THEN a \o p
    ELSE a \o <<Slash>> \o p

\* str.rfind of one character: the last position holding c, 0 when there is none
RFind(p, c) == IF \E i \in DOMAIN p : p[i] = c
               THEN CHOOSE i \in DOMAIN p : p[i] = c /\ \A j \in DOMAIN p : p[j] = c => j <= i
               ELSE 0

\* os.path.splitext(p)[0]
SplitExtRoot(p) ==
    LET sepIndex == RFind(p, Slash)
        dotIndex == RFind(p, Dot)
    IN  IF dotIndex > sepIndex /\ \E i \in (sepIndex + 1)..(dotIndex - 1) : p[i] /= Dot
        THEN SubSeq(p, 1, dotIndex - 1)
        ELSE p

\* Path(p).name, for a p that does not end in '/'
BaseName(p) == SubSeq(p, RFind(p, Slash) + 1, Len(p))

\* Path(p).stem: the name without its last suffix (a dot that is the first or the
\* last character of the name starts no suffix)
Stem(p) ==
    IF 1 < RFind(BaseName(p), Dot) /\ RFind(BaseName(p), Dot) < Len(BaseName(p))
    THEN SubSeq(BaseName(p), 1, RFind(BaseName(p), Dot) - 1)
    ELSE BaseName(p)

\* The property arc_name
ArcNameOf(arc) == Stem(arc.arc_name)

\* The directory marker the map with directories holds (None).
NoneEntry == [kind |-> "none", items |-> <<>>, name |-> <<>>, data |-> <<>>]

RECURSIVE FlattenItems(_, _, _, _, _, _)
\* The for loop of _flatten_file_map over the entries of one directory.
FlattenItems(h, current_path, items, stack, results, include_dirs) ==
    IF items = <<>> THEN [stack |-> stack, results |-> results]
    ELSE LET next_path == PathJoin(current_path, Head(items).key)
             value == Head(items).val
         IN  IF IsDir(h, value) THEN
                 FlattenItems(h, current_path, Tail(items),
                     Append(stack, [path |-> next_path, ref |-> value]),
                     IF include_dirs THEN DictSet(results, next_path, NoneEntry) ELSE results,
                     include_dirs)
             ELSE FlattenItems(h, current_path, Tail(items), stack,
                     DictSet(results, next_path, h[value]), include_dirs)

RECURSIVE FlattenLoop(_, _, _, _)
\* The while loop of _flatten_file_map: the last directory pushed is popped first.
FlattenLoop(h, stack, results, include_dirs) ==
    IF stack = <<>> THEN results
    ELSE LET top == stack[Len(stack)]
             r == FlattenItems(h, top.path, h[top.ref].items,
                               SubSeq(stack, 1, Len(stack) - 1), results, include_dirs)
         IN  FlattenLoop(h, r.stack, r.results, include_dirs)

\* _flatten_file_map: a dict from path to the ArcFile (its fields) or None.
FlattenFileMap(h, arc, include_dirs) ==
    FlattenLoop(h, <<[path |-> SplitExtRoot(arc.arc_name), ref |-> arc.files]>>, <<>>,
                include_dirs)

\* _update
Update(h, A, a) ==
    IF A[a].mod_count > 0 THEN
        [A EXCEPT ![a].mod_count = 0,
                  ![a].only_files = FlattenFileMap(h, A[a], FALSE),
                  ![a].flat_file_struct = FlattenFileMap(h, A[a], TRUE)]
    ELSE A

\* get_all_files
GetAllFilesOf(h, A1, a) == Observed(h, A1, A1[a].only_files)

GetAllFilesOp(h, A, a) == GetAllFilesOf(h, Update(h, A, a), a)

\* len(self._flat_file_struct), A1 being the archives after _update
LenOf(h, A1, a) == Observed(h, A1, Len(A1[a].flat_file_struct))

\* __len__
LenOp(h, A, a) == LenOf(h, Update(h, A, a), a)

\* __iter__: the pairs the generator yields
IterOp(h, A, a) == Observed(h, A, A[a].flat_file_struct)

\* to_dir after _update (A1): the map whose entries it writes to the file system
ToDirWrite(h, A1, a) ==
    IF A1[a].flat_file_struct = <<>>
    THEN Observed(h, [A1 EXCEPT ![a].flat_file_struct = FlattenFileMap(h, A1[a], TRUE)],
                  FlattenFileMap(h, A1[a], TRUE))
    ELSE Observed(h, A1, A1[a].flat_file_struct)

ToDirOp(h, A, a) == ToDirWrite(h, Update(h, A, a), a)

RECURSIVE PrettyPrintArc(_, _, _)
\* pretty_print_arc of __str__: one line per entry, as [indent, tag, key]
PrettyPrintArc(h, items, indent) ==
    IF items = <<>> THEN <<>>
    ELSE LET e == Head(items)
             line == IF ~IsDir(h, e.val) THEN <<[indent |-> indent, tag |-> "file", key |-> e.key]>>
                     ELSE IF h[e.val].items /= <<>> THEN
                         <<[indent |-> indent, tag |-> "dir", key |-> e.key]>>
                         \o PrettyPrintArc(h, h[e.val].items, indent + 1)
                     ELSE <<[indent |-> indent, tag |-> "EMPTY dir", key |-> e.key]>>
         IN  line \o PrettyPrintArc(h, Tail(items), indent)

\* __str__
StrOp(h, A, a) == Observed(h, Update(h, A, a), PrettyPrintArc(h, h[A[a].files].items, 1))

\* __getitem__, the keys of item: a str holding '/' is split and its empty segments
\* dropped, any other str is one key, a list is taken as it is
GetItemKeys(item) ==
    IF item.form = "list" THEN item.segs
    ELSE IF InSeq(Slash, item.chars) THEN SplitPath(item.chars)
    ELSE <<item.chars>>

RECURSIVE GetItemWalk(_, _, _)
\* __getitem__, the loop over the keys: 'key not in current' raises TypeError
\* when current is an ArcFile
GetItemWalk(h, current, keys) ==
    IF keys = <<>> THEN [ref |-> current, err |-> "ok"]
    ELSE IF ~IsDir(h, current) THEN [ref |-> current, err |-> "TypeError"]
    ELSE IF ~DictHas(h[current].items, Head(keys)) THEN [ref |-> current, err |-> "KeyError"]
    ELSE GetItemWalk(h, DictGet(h[current].items, Head(keys)), Tail(keys))

\* __getitem__ after the loop ended or raised (w), A1 being the archives after
\* _update
GetItemFound(h, A1, w) ==
    IF w.err /= "ok" THEN Result(h, A1, w.err) ELSE Observed(h, A1, w.ref)

\* __getitem__ after _update
GetItemOf(h, A1, a, item) ==
    IF item.form = "none" THEN Result(h, A1, "KeyError")
    ELSE GetItemFound(h, A1, GetItemWalk(h, A1[a].files, GetItemKeys(item)))

\* __getitem__: the object at the path (a dict or an ArcFile, by reference)
GetItemOp(h, A, a, item) == GetItemOf(h, Update(h, A, a), a, item)

\* __contains__ after self[item] returned or raised (r): KeyError is caught
ContainsOf(r) ==
    IF r.status = "ok" THEN Observed(r.heap, r.arcs, TRUE)
    ELSE IF r.status = "KeyError" THEN Observed(r.heap, r.arcs, FALSE)
    ELSE r

\* __contains__
ContainsOp(h, A, a, item) == ContainsOf(GetItemOp(h, A, a, item))

\* The assignments a call makes to each of the two maps (each one a call of
\* _flatten_file_map): those of _update
UpdateBuilds(A, a) ==
    IF A[a].mod_count > 0 THEN [only_files |-> 1, flat_file_struct |-> 1]
    ELSE [only_files |-> 0, flat_file_struct |-> 0]

\* those of to_dir, A1 being the archives after _update: an empty map with
\* directories is built again
ToDirBuilds(A, A1, a) ==
    IF A1[a].flat_file_struct = <<>>
    THEN [UpdateBuilds(A, a) EXCEPT !.flat_file_struct = @ + 1]
    ELSE UpdateBuilds(A, a)

\* those of __iter__, which does not call _update
IterBuilds == [only_files |-> 0, flat_file_struct |-> 0]

\* ---------------------------------------------------------------- encoder
\* Mutant: the remainder is not tested, an aligned x moves to the next boundary.
AlignAlways(x, boundary) == x + (boundary - (x % boundary))

\* _align
Align(x, boundary) ==
    IF x % boundary /= 0 THEN x + (boundary - (x % boundary)) ELSE x

RECURSIVE Pow(_, _)
Pow(b, n) == IF n = 0 THEN 1 ELSE b * Pow(b, n - 1)

\* int.to_bytes(w, "big"), for 0 <= n < 256^w
ToBE(n, w) == [i \in 1..w |-> (n \div Pow(256, w - i)) % 256]

\* U8_FILE_MAGIC.encode('latin-1'): "U", 0xAA, "8", "-"
FileMagic == <<85, 170, 56, 45>>

\* str.encode('ascii', errors='replace'): a character outside ASCII becomes "?"
AsciiEncode(name) == [i \in DOMAIN name |-> IF name[i] > 127 THEN 63 ELSE name[i]]

\* _FST_ENTRY_(is_dir, name_off, parent_or_file_off, next_entry_or_len)
FstEntry(is_dir, name_off, parent_or_file_off, next_entry_or_len) ==
    [is_dir |-> is_dir, name_off |-> name_off,
     parent_or_file_off |-> parent_or_file_off,
     next_entry_or_len |-> next_entry_or_len]

\* _FST_ENTRY_.to_binary (name_off stays below 2^24 within the bounds)
ToBinary(e) ==
    <<IF e.is_dir THEN 1 ELSE 0>> \o ToBE(e.name_off, 3)
        \o ToBE(e.parent_or_file_off, 4) \o ToBE(e.next_entry_or_len, 4)

\* The placeholder add_entry appends (None).
NoEntry == FstEntry(FALSE, 0, 0, 0)

\* The lists of step 1 of to_bytes: fst_entries, names, and file_map (the ArcFile
\* of the entry at each index, 0 where the map has no key).  Index idx of the code
\* is position idx + 1.
NoTables == [fst_entries |-> <<>>, names |-> <<>>, file_map |-> <<>>]

\* add_entry; the index it returns is Len(T.fst_entries) before the call
AddEntry(T, name) ==
    [fst_entries |-> Append(T.fst_entries, NoEntry),
     names |-> Append(T.names, name),
     file_map |-> Append(T.file_map, 0)]

\* Mutant: the bound of a directory is the index of its last record.
FillDirLast(T, my_idx, parent_idx) ==
    [T EXCEPT !.fst_entries[my_idx + 1] =
        FstEntry(TRUE, 0, parent_idx, Len(T.fst_entries) - 1)]

\* Mutant: every directory is given the root as its parent.
FillDirRootParent(T, my_idx, parent_idx) ==
    [T EXCEPT !.fst_entries[my_idx + 1] = FstEntry(TRUE, 0, 0, Len(T.fst_entries))]

\* traverse, directory, after the children: the entry of the directory is filled
FillDir(T, my_idx, parent_idx) ==
    [T EXCEPT !.fst_entries[my_idx + 1] = FstEntry(TRUE, 0, parent_idx, Len(T.fst_entries))]

\* traverse, file
FillFile(T, my_idx, node) ==
    [T EXCEPT !.fst_entries[my_idx + 1] = FstEntry(FALSE, 0, 0, 0),
              !.file_map[my_idx + 1] = node]

RECURSIVE Traverse(_, _, _, _, _)
RECURSIVE TraverseItems(_, _, _, _)
\* traverse(name, node, parent_idx)
Traverse(h, T, name, node, parent_idx) ==
    IF IsDir(h, node)
    THEN FillDir(TraverseItems(h, AddEntry(T, name), h[node].items, Len(T.fst_entries)),
                 Len(T.fst_entries), parent_idx)
    ELSE FillFile(AddEntry(T, name), Len(T.fst_entries), node)

\* for child_name, child_node in node.items(): traverse(child_name, child_node, my_idx)
TraverseItems(h, T, items, my_idx) ==
    IF items = <<>> THEN T
    ELSE TraverseItems(h, Traverse(h, T, Head(items).key, Head(items).val, my_idx),
                       Tail(items), my_idx)

\* The root entry, filled after the traversal: its bound is the number of entries.
FillRoot(T) ==
    [T EXCEPT !.fst_entries[1] = FstEntry(TRUE, 0, 0, Len(T.fst_entries))]

\* Step 1 of to_bytes
BuildFst(h, root) == FillRoot(TraverseItems(h, AddEntry(NoTables, <<>>), h[root].items, 0))

RECURSIVE NameOffsets(_, _)
\* Step 2: the offset of each name in the string table, off being its length so far
NameOffsets(names, off) ==
    IF names = <<>> THEN <<>>
    ELSE <<off>> \o NameOffsets(Tail(names), off + Len(AsciiEncode(Head(names))) + 1)

\* Step 2: the string table
StringTable(names) == Flat([i \in DOMAIN names |-> AsciiEncode(names[i]) \o <<Nul>>])

\* Step 2: entry.name_off = name_offsets[idx]
WithNameOffsets(E, offs) == [i \in DOMAIN E |-> [E[i] EXCEPT !.name_off = offs[i]]]

RECURSIVE FillFileEntries(_, _, _, _, _)
\* Mutant: curr_file_off is not advanced, every file is given the same offset.
FillFileEntriesNoAdvance(h, E, file_map, i, curr) ==
    IF i > Len(E) THEN E
    ELSE IF E[i].is_dir THEN FillFileEntries(h, E, file_map, i + 1, curr)
    ELSE FillFileEntries(h,
            [E EXCEPT ![i].parent_or_file_off = curr,
                      ![i].next_entry_or_len = Len(h[file_map[i]].data)],
            file_map, i + 1, curr)

\* Step 4: offset and size of the file entries from position i on, curr being
\* curr_file_off
FillFileEntries(h, E, file_map, i, curr) ==
    IF i > Len(E) THEN E
    ELSE IF E[i].is_dir THEN FillFileEntries(h, E, file_map, i + 1, curr)
    ELSE FillFileEntries(h,
            [E EXCEPT ![i].parent_or_file_off = curr,
                      ![i].next_entry_or_len = Len(h[file_map[i]].data)],
            file_map, i + 1, curr + Align(Len(h[file_map[i]].data), Boundary))

\* Step 3: file_data_offset
FileDataOffset(n_entries, string_table) ==
    Align(FstOffset + n_entries * EntrySize + Len(string_table), Boundary)

\* Mutant: the size field of the header holds the size of the records only.
HeaderBytesFstOnly(n_entries, string_table) ==
    FileMagic \o ToBE(FstOffset, 4)
        \o ToBE(n_entries * EntrySize, 4)
        \o ToBE(FileDataOffset(n_entries, string_table), 4)
        \o Rep(0, 16)

\* Step 5: the header
HeaderBytes(n_entries, string_table) ==
    FileMagic \o ToBE(FstOffset, 4)
        \o ToBE(n_entries * EntrySize + Len(string_table), 4)
        \o ToBE(FileDataOffset(n_entries, string_table), 4)
        \o Rep(0, 16)

\* Step 5: the bytes written so far, padded to the boundary
Padded(bytes) == bytes \o Rep(0, Align(Len(bytes), Boundary) - Len(bytes))

\* Step 5: the file data, each file padded to the boundary
FileDataBytes(h, E, file_map) ==
    Flat([i \in DOMAIN E |->
            IF E[i].is_dir THEN <<>>
            ELSE h[file_map[i]].data
                 \o Rep(0, Align(Len(h[file_map[i]].data), Boundary)
                            - Len(h[file_map[i]].data))])

\* Steps 2 to 5 on the lists T of step 1, the string table built
WriteBuffer(h, T, string_table, E) ==
    Padded(HeaderBytes(Len(E), string_table)
            \o Flat([i \in DOMAIN E |-> ToBinary(E[i])])
            \o string_table)
        \o FileDataBytes(h, E, T.file_map)

EncodeTables(h, T, string_table) ==
    WriteBuffer(h, T, string_table,
        FillFileEntries(h, WithNameOffsets(T.fst_entries, NameOffsets(T.names, 0)),
                        T.file_map, 1, FileDataOffset(Len(T.fst_entries), string_table)))

\* to_bytes: the bytes of the archive whose root dict is at root
ToBytesOf(h, root) ==
    EncodeTables(h, BuildFst(h, root), StringTable(BuildFst(h, root).names))

\* Mutant: to_bytes calls _update first, as the readers of the index do.
ToBytesOpUpdated(h, A, a) == Observed(h, Update(h, A, a), ToBytesOf(h, A[a].files))

\* to_bytes as a call: the bytes it returns, the objects as it leaves them
ToBytesOp(h, A, a) == Observed(h, A, ToBytesOf(h, A[a].files))

\* ---------------------------------------------------------------- decoder
Min(a, b) == IF a <= b THEN a ELSE b

\* data.read(n) at position pos (0-based): the bytes there are, n at most
ReadAt(s, pos, n) == SubSeq(s, pos + 1, Min(pos + n, Len(s)))

RECURSIVE FromBE(_)
\* The unsigned big-endian number of the bytes b.
FromBE(b) == IF b = <<>> THEN 0 ELSE FromBE(SubSeq(b, 1, Len(b) - 1)) * 256 + b[Len(b)]

\* _FST_ENTRY_.load_from_bin at position pos, the 12 bytes being there:
\* is_dir is (word & 0xff000000) /= 0, name_off is word & 0x00ffffff
LoadEntry(s, pos) ==
    FstEntry(s[pos + 1] /= 0,
             FromBE(ReadAt(s, pos + 1, 3)),
             FromBE(ReadAt(s, pos + 4, 4)),
             FromBE(ReadAt(s, pos + 8, 4)))

\* open_arc: the head entry and the entry_num - 1 entries after it
OpenArc(s, fst_start, entry_num) ==
    [k \in 1..Max(entry_num, 1) |-> LoadEntry(s, fst_start + EntrySize * (k - 1))]

RECURSIVE TakeName(_, _)
\* read_terminated_string: the bytes from pos up to a NUL or the end of the data
TakeName(s, pos) ==
    IF pos >= Len(s) \/ s[pos + 1] = Nul THEN <<>>
    ELSE <<s[pos + 1]>> \o TakeName(s, pos + 1)

\* The position of the stream after read_terminated_string read name at pos.
AfterName(s, pos, name) == Min(pos + Len(name) + 1, Len(s))

\* bytes.decode('ascii') raises on a byte above 127
IsAscii(b) == \A i \in DOMAIN b : b[i] <= 127

\* Mutant: an 'if' for the 'while', one directory at most is popped after an entry.
PopEndedOnce(dir_stack, next_x) ==
    IF dir_stack /= <<>> /\ dir_stack[Len(dir_stack)].bound = next_x
    THEN SubSeq(dir_stack, 1, Len(dir_stack) - 1)
    ELSE dir_stack

RECURSIVE PopEnded(_, _)
\* while dir_stack and dir_stack[-1][0] == x + 1: dir_stack.pop()
PopEnded(dir_stack, next_x) ==
    IF dir_stack /= <<>> /\ dir_stack[Len(dir_stack)].bound = next_x
    THEN PopEnded(SubSeq(dir_stack, 1, Len(dir_stack) - 1), next_x)
    ELSE dir_stack

\* The directory load_dir works on after the entry: the top of the stack, or the
\* starting directory.
CurrentDir(dir_stack, dir_files) ==
    IF dir_stack /= <<>> THEN dir_stack[Len(dir_stack)].dir ELSE dir_files

\* load_dir, one entry: the heap and the stack after the entry __entry called
\* __name was stored in current_dir
LoadDirEntry(s, h, x, entry, name, current_dir, dir_stack) ==
    IF entry.is_dir THEN
        [heap |-> HeapSet(Append(h, DirCell(<<>>)), current_dir, name, Len(h) + 1),
         dir_stack |-> IF entry.next_entry_or_len = x + 1 THEN dir_stack
                       ELSE Append(dir_stack, [bound |-> entry.next_entry_or_len,
                                               dir |-> Len(h) + 1])]
    ELSE
        [heap |-> HeapSet(Append(h, FileCell(name,
                                ReadAt(s, entry.parent_or_file_off, entry.next_entry_or_len))),
                          current_dir, name, Len(h) + 1),
         dir_stack |-> dir_stack]

RECURSIVE LoadDirLoop(_, _, _, _, _, _, _, _, _)
\* load_dir, the end of the loop body: the stack popped, the directory to work on
\* chosen; h1 is the heap with the entry stored
LoadDirNext(s, E, tbl, h1, dir_files, x, bound, dir_stack) ==
    LoadDirLoop(s, E, tbl, h1, dir_files, x + 1, bound,
                CurrentDir(dir_stack, dir_files), dir_stack)

\* load_dir, the entry stored (r)
LoadDirStored(s, E, tbl, r, dir_files, x, bound) ==
    LoadDirNext(s, E, tbl, r.heap, dir_files, x, bound, PopEnded(r.dir_stack, x + 1))

\* load_dir, the bytes of the name of entry x read
LoadDirNamed(s, E, tbl, h, dir_files, x, bound, current_dir, dir_stack, name) ==
    IF ~IsAscii(name)
    THEN [heap |-> h, status |-> "UnicodeDecodeError", dir_stack |-> dir_stack]
    ELSE LoadDirStored(s, E, tbl,
            LoadDirEntry(s, h, x, E[x + 1], name, current_dir, dir_stack),
            dir_files, x, bound)

\* load_dir: for x in range(__dir_idx + 1, __dir.next_entry_or_len), from x on;
\* the result holds the heap, what was raised and dir_stack as the loop left it
LoadDirLoop(s, E, tbl, h, dir_files, x, bound, current_dir, dir_stack) ==
    IF x >= bound THEN [heap |-> h, status |-> "ok", dir_stack |-> dir_stack]
    ELSE IF x >= Len(E) THEN [heap |-> h, status |-> "IndexError", dir_stack |-> dir_stack]
    ELSE LoadDirNamed(s, E, tbl, h, dir_files, x, bound, current_dir, dir_stack,
                      TakeName(s, tbl + E[x + 1].name_off))

\* load_dir(__dir_idx, ...): dir_files is a new dict, at Len(h) + 1
LoadDir(s, E, tbl, h, dir_idx) ==
    LoadDirLoop(s, E, tbl, Append(h, DirCell(<<>>)), Len(h) + 1, dir_idx + 1,
                E[dir_idx + 1].next_entry_or_len, Len(h) + 1, <<>>)

\* The indices load_dir(i) appends to already_parsed.
ParsedBy(E, i) == {i} \cup ((i + 1)..(E[i + 1].next_entry_or_len - 1))

RECURSIVE LoadTop(_, _, _, _, _, _, _)
\* The top-level loop, a directory entry, load_dir(i) having returned or raised
\* (r): self.files[name] = the dict load_dir made, which is at dir_files
LoadTopDir(s, E, tbl, r, dir_files, files, i, name, already_parsed) ==
    IF r.status /= "ok" THEN [heap |-> r.heap, files |-> files, status |-> r.status]
    ELSE LoadTop(s, E, tbl, HeapSet(r.heap, files, name, dir_files),
                 files, i + 1, already_parsed \cup ParsedBy(E, i))

\* The top-level loop, a file entry: the bytes are read where the stream stands,
\* which is where the name ended
LoadTopFile(s, E, tbl, h, files, i, name, already_parsed) ==
    LoadTop(s, E, tbl,
            HeapSet(Append(h, FileCell(name,
                        ReadAt(s, AfterName(s, tbl + E[i + 1].name_off, name),
                               E[i + 1].next_entry_or_len))),
                    files, name, Len(h) + 1),
            files, i + 1, already_parsed \cup {i})

\* The top-level loop, the bytes of the name of entry i read
LoadTopNamed(s, E, tbl, h, files, i, name, already_parsed) ==
    IF ~IsAscii(name) THEN [heap |-> h, files |-> files, status |-> "UnicodeDecodeError"]
    ELSE IF E[i + 1].is_dir
    THEN LoadTopDir(s, E, tbl, LoadDir(s, E, tbl, h, i), Len(h) + 1, files, i, name,
                    already_parsed)
    ELSE LoadTopFile(s, E, tbl, h, files, i, name, already_parsed)

\* for i in range(1, entries[0].next_entry_or_len), from i on
LoadTop(s, E, tbl, h, files, i, already_parsed) ==
    IF i >= E[1].next_entry_or_len THEN [heap |-> h, files |-> files, status |-> "ok"]
    ELSE IF i \in already_parsed THEN LoadTop(s, E, tbl, h, files, i + 1, already_parsed)
    ELSE LoadTopNamed(s, E, tbl, h, files, i, TakeName(s, tbl + E[i + 1].name_off),
                      already_parsed)

\* _load_from_bin after open_arc returned the entries E: self.files = {} and the
\* top-level loop; tbl is string_tbl_start
LoadEntries(s, E, tbl, h) == LoadTop(s, E, tbl, Append(h, DirCell(<<>>)), Len(h) + 1, 1, {})

\* open_arc after the head entry was read, entry_num being its length field: every
\* entry unpacked needs its 12 bytes
LoadFst(s, h, fst_start, entry_num) ==
    IF fst_start + EntrySize * Max(entry_num, 1) > Len(s)
    THEN [heap |-> h, files |-> 0, status |-> "struct.error"]
    ELSE LoadEntries(s, OpenArc(s, fst_start, entry_num),
                     fst_start + EntrySize * Max(entry_num, 1), h)

\* _load_from_bin after the header was unpacked: open_arc reads the head entry
LoadHead(s, h, fst_start) ==
    IF fst_start + EntrySize > Len(s)
    THEN [heap |-> h, files |-> 0, status |-> "struct.error"]
    ELSE LoadFst(s, h, fst_start, LoadEntry(s, fst_start).next_entry_or_len)

\* Mutant: the magic is read and not compared.
LoadFromBinAnyMagic(s, h) ==
    IF Len(s) < 4 THEN [heap |-> h, files |-> 0, status |-> "struct.error"]
    ELSE IF Len(s) < 16 THEN [heap |-> h, files |-> 0, status |-> "struct.error"]
    ELSE LoadHead(s, h, FromBE(ReadAt(s, 4, 4)))

\* _load_from_bin on data opened at position 0 holding the bytes s (header fields
\* below 2^31): the heap with the tree read, its root dict, and what was raised
LoadFromBin(s, h) ==
    IF Len(s) < 4 THEN [heap |-> h, files |-> 0, status |-> "struct.error"]
    ELSE IF ReadAt(s, 0, 4) /= FileMagic
    THEN [heap |-> h, files |-> 0, status |-> "AssertionError"]
    ELSE IF Len(s) < 16 THEN [heap |-> h, files |-> 0, status |-> "struct.error"]
    ELSE LoadHead(s, h, FromBE(ReadAt(s, 4, 4)))

\* Arc(data=...): the fields of the new archive after __init__, r being what
\* _load_from_bin made of the bytes of the file called name
LoadedArc(r, name) ==
    [files |-> r.files, mod_count |-> 0,
     flat_file_struct |->
        FlattenFileMap(r.heap, [arc_name |-> name, files |-> r.files], TRUE),
     only_files |->
        FlattenFileMap(r.heap, [arc_name |-> name, files |-> r.files], FALSE),
     arc_name |-> name, created_manually |-> FALSE]

\* Arc.from_file on a file called name holding the bytes s: a new archive, or the
\* exception and no archive
FromFileLoaded(h, A, r, name) ==
    IF r.status /= "ok" THEN Result(h, A, r.status)
    ELSE Result(r.heap, Append(A, LoadedArc(r, name)), "ok")

FromFileOp(h, A, s, name) == FromFileLoaded(h, A, LoadFromBin(s, h), name)

\* ------------------------------------------------------------ the machine
\* 'ARC_FILE', the name of an archive created without data
ManualName == <<65, 82, 67, 95, 70, 73, 76, 69>>

\* Arc(): the fields after __init__ without data
NewArc(root) ==
    [files |-> root, mod_count |-> 0, flat_file_struct |-> <<>>, only_files |-> <<>>,
     arc_name |-> ManualName, created_manually |-> TRUE]

Pos(s, x) == CHOOSE i \in DOMAIN s : s[i] = x

\* The heap and the archives renumbered by seen, the reachable cells in order.
Renumber(h, A, seen) ==
    [heap |-> [i \in DOMAIN seen |->
                [h[seen[i]] EXCEPT !.items =
                    [j \in DOMAIN @ |-> [@[j] EXCEPT !.val = Pos(seen, @)]]]],
     arcs |-> [i \in DOMAIN A |-> [A[i] EXCEPT !.files = Pos(seen, @)]]]

\* Object identities are not observable: after every call the heap is renumbered
\* in depth-first order from the archives' roots, and unreachable cells are dropped
\* (garbage collected).
Canon(h, A) == Renumber(h, A, Visit(h, [i \in DOMAIN A |-> A[i].files], <<>>))

InBounds(h, A) ==
    \A i \in DOMAIN A :
        /\ A[i].mod_count <= MaxMod
        /\ Len(Reach(h, A[i].files)) <= MaxObjs

\* The result r of a call with its heap renumbered.
WithCanon(c, r) == [heap |-> c.heap, arcs |-> c.arcs, status |-> r.status, obs |-> r.obs]
Outcome(r) == WithCanon(Canon(r.heap, r.arcs), r)

\* The machine moves to the renumbered result c of a call.  (A call that raises
\* leaves the machine where the exception found it.)
Install(c) ==
    /\ InBounds(c.heap, c.arcs)
    /\ heap' = c.heap
    /\ arcs' = c.arcs
    /\ UNCHANGED stream

\* A call ends with result r.  A call that changed no object leaves the machine
\* where it is: every state is renumbered already.
Commit(r) ==
    IF r.heap = heap /\ r.arcs = arcs THEN UNCHANGED vars
    ELSE Install(Canon(r.heap, r.arcs))

\* Every state is renumbered and within the bounds.
Canonical ==
    /\ Canon(heap, arcs) = [heap |-> heap, arcs |-> arcs]
    /\ InBounds(heap, arcs)

\* ------------------------------------------------------------------ inputs
Names == {<<97>>, <<98>>}
\* File contents: none, and one byte.
DataInputs == {<<>>, <<1>>}
ListPaths == {ListPath(segs) : segs \in SeqUpTo(Names, MaxDepth)}
\* A '/'-separated string with an empty segment: "a//b"
StrPaths == {StrPath(JoinSlash(<<<<97>>, <<>>, <<98>>>>))}
PathArgs == {NonePath} \cup ListPaths \cup StrPaths
KeyArgs == {StrPath(n) : n \in Names} \cup {ListPath(<<n>>) : n \in Names}
\* The items looked up: every path and every single name, none (None) included.
ItemArgs == PathArgs \cup KeyArgs
\* File contents around the alignment boundary: BlockLens bytes 1, 2, 3, ...
BlockLens == {0, 1, Boundary, Boundary + 1}
BlockData == {[i \in 1..n |-> i] : n \in BlockLens}
\* The name of the file the bytes of an archive are stored in: "x.u8"
FileName == <<120, 46, 117, 56>>
\* The same file named with its directory: "d/x.u8"
DirFileName == <<100, Slash>> \o FileName
FileNames == {FileName, DirFileName}
\* The values of the single-archive specifications: no object is shared.
FreshValues ==
    {NoneValue, OtherValue} \cup {NewFileValue(n, d) : n \in Names, d \in DataInputs}

\* ----------------------------------------------------------------- actions
Mkdir == \E a \in DOMAIN arcs, path \in PathArgs : Commit(MkdirOp(heap, arcs, a, path))

AppendFile ==
    \E a \in DOMAIN arcs, n \in Names, d \in DataInputs, path \in PathArgs :
        Commit(AppendFileOp(heap, arcs, a, n, d, path))

Rename ==
    \E a \in DOMAIN arcs, path \in PathArgs, n \in Names :
        Commit(RenameOp(heap, arcs, a, path, n))

Delete == \E a \in DOMAIN arcs, path \in PathArgs : Commit(DeleteOp(heap, arcs, a, path))

Move ==
    \E a \in DOMAIN arcs, src \in PathArgs, dest \in PathArgs :
        Commit(MoveOp(heap, arcs, a, src, dest))

\* Item assignment of a value no archive holds yet, or of the archive itself.
SetItem ==
    \E a \in DOMAIN arcs, key \in KeyArgs :
        \E value \in FreshValues \cup {ArcValue(a)} :
            Commit(SetItemOp(heap, arcs, a, key, value))

GetAllFiles == \E a \in DOMAIN arcs : Commit(GetAllFilesOp(heap, arcs, a))
LenCall == \E a \in DOMAIN arcs : Commit(LenOp(heap, arcs, a))
Iter == \E a \in DOMAIN arcs : Commit(IterOp(heap, arcs, a))
ToDir == \E a \in DOMAIN arcs : Commit(ToDirOp(heap, arcs, a))
Str == \E a \in DOMAIN arcs : Commit(StrOp(heap, arcs, a))
GetItem == \E a \in DOMAIN arcs, item \in ItemArgs : Commit(GetItemOp(heap, arcs, a, item))
Contains == \E a \in DOMAIN arcs, item \in ItemArgs : Commit(ContainsOp(heap, arcs, a, item))

\* append_file of contents around the alignment boundary
AppendBlock ==
    \E a \in DOMAIN arcs, n \in Names, d \in BlockData, path \in PathArgs :
        Commit(AppendFileOp(heap, arcs, a, n, d, path))

\* The bytes a call r returned are kept, the objects are as it left them.
Keep(r) ==
    /\ stream' = r.obs
    /\ heap' = r.heap
    /\ arcs' = r.arcs

\* to_bytes (to_file): the bytes are kept
ToBytes == \E a \in DOMAIN arcs : Keep(ToBytesOp(heap, arcs, a))

\* Arc.from_file on the file holding the bytes kept
FromFile == \E name \in FileNames : Commit(FromFileOp(heap, arcs, stream, name))

\* One archive, created empty: Arc().
Init ==
    /\ heap = <<DirCell(<<>>)>>
    /\ arcs = <<NewArc(1)>>
    /\ stream = <<>>

\* The path mutation API on one archive.
Next ==
    \/ Mkdir
    \/ AppendFile
    \/ Rename
    \/ Delete
    \/ Move
    \/ SetItem

Spec == Init /\ [][Next]_vars

\* The mutations and the readers of the flat index of one archive, on trees of at
\* most MaxIndexObjs objects (a stale index multiplies the states).
IndexSized(h) == Len(h) <= MaxIndexObjs

NextIndex ==
    \/ Mkdir /\ IndexSized(heap')
    \/ AppendFile /\ IndexSized(heap')
    \/ Rename
    \/ Delete
    \/ Move /\ IndexSized(heap')
    \/ SetItem /\ IndexSized(heap')
    \/ GetAllFiles
    \/ LenCall
    \/ Iter
    \/ ToDir
    \/ Str
    \/ GetItem
    \/ Contains

SpecIndex == Init /\ [][NextIndex]_vars

\* Two archives, both created empty.
InitShare ==
    /\ heap = <<DirCell(<<>>), DirCell(<<>>)>>
    /\ arcs = <<NewArc(1), NewArc(2)>>
    /\ stream = <<>>

\* Item assignment of another archive.
SetItemArc ==
    \E a \in DOMAIN arcs, key \in KeyArgs :
        \E b \in DOMAIN arcs \ {a} : Commit(SetItemOp(heap, arcs, a, key, ArcValue(b)))

\* Item assignment of an ArcFile object the caller assigned before and an archive
\* holds.
SetItemHeld ==
    \E a \in DOMAIN arcs, key \in KeyArgs :
        \E r \in {c \in DOMAIN heap : ~IsDir(heap, c)} :
            Commit(SetItemOp(heap, arcs, a, key, HeldFileValue(heap, r)))

\* The public operations on two archives, on heaps of at most MaxShareObjs objects.
ShareSized(h) == Len(h) <= MaxShareObjs

NextShare ==
    \/ Mkdir /\ ShareSized(heap')
    \/ AppendFile /\ ShareSized(heap')
    \/ Rename
    \/ Delete
    \/ Move /\ ShareSized(heap')
    \/ SetItem /\ ShareSized(heap')
    \/ SetItemArc
    \/ SetItemHeld

SpecShare == InitShare /\ [][NextShare]_vars

\* A tree is built, written once, and the bytes written are read into a second
\* archive.
NextCodec ==
    \/ stream = <<>> /\ Mkdir
    \/ stream = <<>> /\ AppendBlock
    \/ stream = <<>> /\ ToBytes
    \/ stream /= <<>> /\ Len(arcs) = 1 /\ FromFile

SpecCodec == Init /\ [][NextCodec]_vars

\* ------------------------------------------------- files from_file is given
\* The bytes s with the bytes b written over them at position pos (from 0).
Patch(s, pos, b) ==
    [k \in DOMAIN s |-> IF pos < k /\ k <= pos + Len(b) THEN b[k - pos] ELSE s[k]]

\* The number of records the head record of the written bytes s declares.
RecordsIn(s) == LoadEntry(s, FstOffset).next_entry_or_len

\* Lengths a file is cut to: inside the magic, the header, the head record, the
\* last record, the name table, before the file data, inside the last file.
DamageCuts(s) ==
    {n \in {3, 15, FstOffset - 1, FstOffset + EntrySize - 1,
            FstOffset + EntrySize * RecordsIn(s) - 1,
            FstOffset + EntrySize * RecordsIn(s) + 1,
            FromBE(ReadAt(s, 12, 4)), Len(s) - Boundary, Len(s) - 1} : n < Len(s)}

\* Values written over the field at offset f of record i: a name offset (f = 1,
\* three bytes) and a file offset (f = 4) past the end of the file, a length or
\* bound (f = 8) of 0, of i, past the number of records and past the end of the
\* file.
DamageValues(s, i, f) ==
    IF f = 1 THEN {ToBE(Len(s), 3)}
    ELSE IF f = 4 THEN {ToBE(Len(s), 4)}
    ELSE {ToBE(v, 4) : v \in {0, i, RecordsIn(s) + 1, Len(s) + 1}}

\* The file that holds the bytes written is cut short.
CutFile ==
    /\ \E n \in DamageCuts(stream) : stream' = SubSeq(stream, 1, n)
    /\ UNCHANGED <<heap, arcs>>

\* A field of a record of the file is overwritten.
PatchRecord ==
    /\ \E i \in 1..(RecordsIn(stream) - 1), f \in {1, 4, 8} :
            \E b \in DamageValues(stream, i, f) :
                stream' = Patch(stream, FstOffset + EntrySize * i + f, b)
    /\ UNCHANGED <<heap, arcs>>

\* A byte of the magic of the file is overwritten.
PatchMagic ==
    /\ \E k \in 0..3 : stream' = Patch(stream, k, <<0>>)
    /\ UNCHANGED <<heap, arcs>>

\* The file is the one to_bytes wrote.
Intact == stream /= <<>> /\ stream = ToBytesOf(heap, arcs[1].files)

\* A tree of at most MaxDamageObjs objects is built and written, the file is
\* damaged once or not at all, and from_file reads it.
DamageSized(h) == Len(h) <= MaxDamageObjs

NextDamage ==
    \/ stream = <<>> /\ Mkdir /\ DamageSized(heap')
    \/ stream = <<>> /\ AppendBlock /\ DamageSized(heap')
    \/ stream = <<>> /\ ToBytes
    \/ Len(arcs) = 1 /\ Intact /\ CutFile
    \/ Len(arcs) = 1 /\ Intact /\ PatchRecord
    \/ Len(arcs) = 1 /\ Intact /\ PatchMagic
    \/ stream /= <<>> /\ Len(arcs) = 1 /\ FromFile

SpecDamage == Init /\ [][NextDamage]_vars

\* ------------------------------------------------- trees of deeper nesting
\* A tree as a value: a file with its bytes, or a directory with its entries.
FileTree(data) == [kind |-> "file", items |-> <<>>, data |-> data]
DirTree(items) == [kind |-> "dict", items |-> items, data |-> <<>>]

RECURSIVE TreeSize(_)
TreeSize(t) ==
    IF t.items = <<>> THEN 1
    ELSE IF Len(t.items) = 1 THEN 1 + TreeSize(t.items[1].val)
    ELSE 1 + TreeSize(t.items[1].val) + TreeSize(t.items[2].val)

RECURSIVE TreesUpTo(_)
\* The trees of at most n nodes whose directories hold nothing, an entry 'a', or
\* the entries 'a' and 'b'; the files hold one byte.
TreesUpTo(n) ==
    IF n <= 0 THEN {}
    ELSE {FileTree(<<1>>), DirTree(<<>>)}
         \cup {DirTree(<<[key |-> <<97>>, val |-> t]>>) : t \in TreesUpTo(n - 1)}
         \cup {DirTree(<<[key |-> <<97>>, val |-> t.a], [key |-> <<98>>, val |-> t.b]>>) :
                t \in {u \in [a : TreesUpTo(n - 2), b : TreesUpTo(n - 2)] :
                        TreeSize(u.a) + TreeSize(u.b) < n}}

RECURSIVE Plant(_, _, _)
RECURSIVE PlantItems(_, _, _)
\* The heap h with the objects of the tree t, called name in its directory,
\* created parents first as mkdir and append_file create them.
Plant(h, name, t) ==
    IF t.kind = "file" THEN [heap |-> Append(h, FileCell(name, t.data)), ref |-> Len(h) + 1]
    ELSE PlantItems(Append(h, DirCell(<<>>)), Len(h) + 1, t.items)

PlantItems(h, dir, items) ==
    IF items = <<>> THEN [heap |-> h, ref |-> dir]
    ELSE PlantItems(HeapSet(Plant(h, Head(items).key, Head(items).val).heap, dir,
                            Head(items).key, Len(h) + 1),
                    dir, Tail(items))

\* One archive that mutations made a tree of at most MaxNestObjs objects of.
InitNest ==
    /\ \E t \in TreesUpTo(MaxNestObjs) :
            /\ t.kind = "dict"
            /\ heap = Plant(<<>>, <<>>, t).heap
    /\ arcs = <<[NewArc(1) EXCEPT !.mod_count = 1]>>
    /\ stream = <<>>

\* Arc.from_file on the file holding the bytes kept, whatever the size of the tree
FromFileAny ==
    /\ heap' = Canon(FromFileOp(heap, arcs, stream, FileName).heap,
                     FromFileOp(heap, arcs, stream, FileName).arcs).heap
    /\ arcs' = Canon(FromFileOp(heap, arcs, stream, FileName).heap,
                     FromFileOp(heap, arcs, stream, FileName).arcs).arcs
    /\ UNCHANGED stream

\* The tree is written and the bytes are read.
NextNest ==
    \/ stream = <<>> /\ ToBytes
    \/ stream /= <<>> /\ Len(arcs) = 1 /\ FromFileAny

SpecNest == InitNest /\ [][NextNest]_vars

\* ------------------------------------------------- what the claims speak of
\* The archive the single-archive specifications work on.
TheArc == 1

RECURSIVE Resolve(_, _, _)
\* The cell the segments lead to from the cell cur; 0 when a segment is missing or
\* lies below a file.
Resolve(h, cur, segs) ==
    IF segs = <<>> THEN cur
    ELSE IF ~IsDir(h, cur) \/ ~DictHas(h[cur].items, Head(segs)) THEN 0
    ELSE Resolve(h, DictGet(h[cur].items, Head(segs)), Tail(segs))

Root(A) == A[TheArc].files
Resolves(h, A, segs) == Resolve(h, Root(A), segs) /= 0
ResolvesToDir(h, A, segs) == Resolves(h, A, segs) /\ IsDir(h, Resolve(h, Root(A), segs))
ResolvesToFile(h, A, segs) == Resolves(h, A, segs) /\ ~IsDir(h, Resolve(h, Root(A), segs))

Prefix(segs, k) == SubSeq(segs, 1, k)
IsPrefix(s, t) == Len(s) <= Len(t) /\ SubSeq(t, 1, Len(s)) = s

\* Every path a tree within the bounds can hold.
TreePaths == SeqUpTo(Names, MaxObjs - 1)

Rejected(r) == r.status /= "ok"

\* The tree of the outcome r is the tree of the current state.
TreeUnchanged(r) == r.heap = heap /\ Root(r.arcs) = Root(arcs)

\* Every node of the tree h is found in the tree h2 at the same path, with the same
\* kind, the same content if it is a file and, if it is a directory, its entries
\* first and in the same order.
NodeKept(c, c2) ==
    /\ c2.kind = c.kind
    /\ c2.name = c.name
    /\ c2.data = c.data
    /\ IsPrefix(DictKeys(c.items), DictKeys(c2.items))

NodesKept(h, A, h2, A2) ==
    \A q \in TreePaths :
        Resolves(h, A, q) =>
            /\ Resolves(h2, A2, q)
            /\ NodeKept(h[Resolve(h, Root(A), q)], h2[Resolve(h2, Root(A2), q)])

\* --------------------------------------------------------------------- C7
MkdirPost(segs, r) ==
    r.status = "ok" =>
        /\ \A k \in 1..Len(segs) :
                ResolvesToDir(r.heap, r.arcs, Prefix(segs, k))
        /\ NodesKept(heap, arcs, r.heap, r.arcs)
        /\ ResolvesToDir(heap, arcs, segs) => TreeUnchanged(r)

\* C7: in every reachable tree, after a successful mkdir(path) every non-empty
\* prefix of path resolves to a directory and every node that existed before is
\* unchanged; mkdir(path) on a path that already is a directory leaves the tree
\* exactly as it was.
MkdirSuccess ==
    \A path \in PathArgs :
        MkdirPost(Segments(path), Outcome(MkdirOp(heap, arcs, TheArc, path)))

\* mkdir(path) succeeds on a two-segment path, neither segment existing, in a tree
\* that holds a file inside a directory.
MkdirWitnessAt(segs, r) ==
    /\ Len(segs) = 2
    /\ ~Resolves(heap, arcs, Prefix(segs, 1))
    /\ \E q \in TreePaths : Len(q) = 2 /\ ResolvesToFile(heap, arcs, q)
    /\ r.status = "ok"
    /\ ResolvesToDir(r.heap, r.arcs, segs)

MkdirSuccessWitness ==
    \E path \in PathArgs :
        MkdirWitnessAt(Segments(path), Outcome(MkdirOp(heap, arcs, TheArc, path)))

\* --------------------------------------------------------------------- C8
\* A segment of the path is a file: walking the segments from the root, all being
\* directories so far, reaches a File.
HitsFile(h, A, segs) ==
    \E k \in 1..Len(segs) : ResolvesToFile(h, A, Prefix(segs, k))

MkdirConflictPost(segs, r) ==
    HitsFile(heap, arcs, segs) => r.status = "ValueError" /\ TreeUnchanged(r)

\* C8: in every reachable tree, mkdir on a path one of whose segments exists as a
\* File raises ValueError and leaves the tree exactly as it was: no directory is
\* created for any segment.
MkdirConflictAtomic ==
    \A path \in PathArgs :
        MkdirConflictPost(Segments(path), Outcome(MkdirOp(heap, arcs, TheArc, path)))

\* mkdir is rejected on a path whose first segment is a directory and whose second
\* segment is a file.
MkdirConflictWitnessAt(segs, r) ==
    /\ Len(segs) = 2
    /\ ResolvesToDir(heap, arcs, Prefix(segs, 1))
    /\ ResolvesToFile(heap, arcs, segs)
    /\ r.status = "ValueError"

MkdirConflictWitness ==
    \E path \in PathArgs :
        MkdirConflictWitnessAt(Segments(path), Outcome(MkdirOp(heap, arcs, TheArc, path)))

\* --------------------------------------------------------------------- C9
AppendDuplicatePost(n, segs, r) ==
    (ResolvesToDir(heap, arcs, segs)
        /\ Resolves(heap, arcs, Append(segs, n))) =>
            r.status = "KeyError" /\ TreeUnchanged(r)

\* C9: in every reachable tree, append_file(name, bytes, path) into a directory
\* that already holds an entry called name, file or directory, raises KeyError,
\* and the whole tree (the entry's content and the set of directories included) is
\* exactly as before the call.
AppendDuplicateRejected ==
    \A n \in Names, d \in DataInputs, path \in PathArgs :
        AppendDuplicatePost(n, Segments(path),
                            Outcome(AppendFileOp(heap, arcs, TheArc, n, d, path)))

\* append_file is rejected where the directory at a one-segment path holds a file
\* of that name with other bytes.
AppendDuplicateWitnessAt(n, d, segs, r) ==
    /\ Len(segs) = 1
    /\ ResolvesToFile(heap, arcs, Append(segs, n))
    /\ heap[Resolve(heap, Root(arcs), Append(segs, n))].data /= d
    /\ r.status = "KeyError"

AppendDuplicateWitness ==
    \E n \in Names, d \in DataInputs, path \in PathArgs :
        AppendDuplicateWitnessAt(n, d, Segments(path),
                                 Outcome(AppendFileOp(heap, arcs, TheArc, n, d, path)))

\* -------------------------------------------------------------------- C10
\* A segment of the path is missing: walking the segments from the root, all being
\* directories so far, reaches a directory that does not hold the next segment.
SegmentMissing(h, A, segs) ==
    \E k \in 1..Len(segs) :
        /\ ResolvesToDir(h, A, Prefix(segs, k - 1))
        /\ ~Resolves(h, A, Prefix(segs, k))

\* new_name is the name of a sibling of the node at segs.
SiblingNamed(h, A, segs, new_name) ==
    /\ segs /= <<>>
    /\ Resolves(h, A, segs)
    /\ Resolves(h, A, Append(Front(segs), new_name))

RenameRejectedPost(segs, n, r) ==
    /\ SegmentMissing(heap, arcs, segs) => r.status = "KeyError"
    /\ SiblingNamed(heap, arcs, segs, n) => r.status = "KeyError"
    /\ Rejected(r) => TreeUnchanged(r)

\* C10: in every reachable tree, rename(path, new_name) raises KeyError when a
\* parent segment or the last segment of path is missing, and when new_name already
\* is the name of a sibling; every rejected rename leaves the tree exactly as
\* before the call (same names, same order, same contents).
RenameRejected ==
    \A path \in PathArgs, n \in Names :
        RenameRejectedPost(Segments(path), n,
                           Outcome(RenameOp(heap, arcs, TheArc, path, n)))

\* rename is rejected because new_name is the name of another entry of the same
\* directory, the renamed node being the first of the two.
RenameRejectedWitnessAt(segs, n, r) ==
    /\ Len(segs) = 2
    /\ Last(segs) /= n
    /\ SiblingNamed(heap, arcs, segs, n)
    /\ DictKeys(heap[Resolve(heap, Root(arcs), Front(segs))].items)
            = <<Last(segs), n>>
    /\ r.status = "KeyError"

RenameRejectedWitness ==
    \E path \in PathArgs, n \in Names :
        RenameRejectedWitnessAt(Segments(path), n,
                                Outcome(RenameOp(heap, arcs, TheArc, path, n)))

\* --------------------------------------------------------------------- C2
MoveKeepsPost(segs, r) ==
    (segs /= <<>> /\ Resolves(heap, arcs, segs) /\ Rejected(r)) =>
        TreeUnchanged(r)

\* C2: in every reachable tree, a move(src, dest) that is rejected after the source
\* resolved leaves the tree equal to the tree before the call (the node is not
\* lost).
MoveNeverLoses ==
    \A src \in PathArgs, dest \in PathArgs :
        MoveKeepsPost(Segments(src), Outcome(MoveOp(heap, arcs, TheArc, src, dest)))

\* --------------------------------------------------------------------- C3
\* A fresh flattening of the current tree.
FreshFiles == FlattenFileMap(heap, arcs[TheArc], FALSE)
FreshStruct == FlattenFileMap(heap, arcs[TheArc], TRUE)

GetAllFilesFresh == GetAllFilesOp(heap, arcs, TheArc).obs = FreshFiles
LenFresh == LenOp(heap, arcs, TheArc).obs = Len(FreshStruct)
IterFresh == IterOp(heap, arcs, TheArc).obs = FreshStruct
ToDirFresh == ToDirOp(heap, arcs, TheArc).obs = FreshStruct
StrFresh ==
    /\ StrOp(heap, arcs, TheArc).arcs[TheArc].only_files = FreshFiles
    /\ StrOp(heap, arcs, TheArc).arcs[TheArc].flat_file_struct = FreshStruct

\* C3: in every state reached by mutations and readers, each reader of the flat
\* index (get_all_files, len, iteration, to_dir, str) observes maps equal to a
\* fresh flattening of the current tree.
IndexNeverStale ==
    /\ GetAllFilesFresh
    /\ LenFresh
    /\ IterFresh
    /\ ToDirFresh
    /\ StrFresh

\* --------------------------------------------------------------------- C4
\* The entries (directory, position) that hold the cell c.
EntriesOf(h, c) ==
    UNION {{<<r, i>> : i \in {j \in DOMAIN h[r].items : h[r].items[j].val = c}} :
            r \in DOMAIN h}

RootsAt(A, c) == {a \in DOMAIN A : A[a].files = c}

\* Every cell on the heap is reachable from an archive.  The structure is a forest
\* of one tree per archive exactly if the root of an archive is the root of that
\* archive only and the value of no entry, and every other cell is the value of
\* exactly one entry.
TreeShapedHeap(h, A) ==
    \A c \in DOMAIN h :
        IF RootsAt(A, c) /= {}
        THEN Cardinality(RootsAt(A, c)) = 1 /\ EntriesOf(h, c) = {}
        ELSE Cardinality(EntriesOf(h, c)) = 1

\* C4: after any sequence of public operations on two archives, item assignment of
\* an ArcFile or of another Arc included, no directory or file is reachable by two
\* paths or from two archives, and no directory is reachable from itself.
TreeShaped == TreeShapedHeap(heap, arcs)

\* --------------------------------------------------------------------- C1
RECURSIVE SameTree(_, _, _)
\* The nodes at r1 and r2 are equal in names, nesting and file bytes.
SameTree(h, r1, r2) ==
    /\ h[r1].kind = h[r2].kind
    /\ h[r1].name = h[r2].name
    /\ h[r1].data = h[r2].data
    /\ Range(DictKeys(h[r1].items)) = Range(DictKeys(h[r2].items))
    /\ \A k \in Range(DictKeys(h[r1].items)) :
            SameTree(h, DictGet(h[r1].items, k), DictGet(h[r2].items, k))

\* The bytes written were read into a second archive.
Decoded == Len(arcs) = 2

\* C1: the tree read from the bytes to_bytes wrote for a tree T (files under the
\* root, files in directories, empty and nested directories, empty and non-empty
\* files) equals T in names, nesting and every file's bytes.
RoundTrip == Decoded => SameTree(heap, arcs[1].files, arcs[2].files)

\* A file directly under the root holding at least one byte.
RootFileWithBytes(h, root) ==
    \E i \in DOMAIN h[root].items :
        ~IsDir(h, h[root].items[i].val) /\ h[h[root].items[i].val].data /= <<>>

\* The round trip of a tree without a non-empty file directly under the root.
RoundTripBelowRoot ==
    (Decoded /\ ~RootFileWithBytes(heap, arcs[1].files)) =>
        SameTree(heap, arcs[1].files, arcs[2].files)

\* ---------------------------------------------------------------- C5, C6
RECURSIVE Preorder(_, _, _)
RECURSIVE PreorderItems(_, _, _)
\* The nodes of the tree below (and with) the node at ref, parents before children
\* and siblings in the order of the dict, each with its path.
Preorder(h, ref, path) ==
    <<[path |-> path, ref |-> ref]>> \o PreorderItems(h, h[ref].items, path)

PreorderItems(h, items, path) ==
    IF items = <<>> THEN <<>>
    ELSE Preorder(h, Head(items).val, Append(path, Head(items).key))
         \o PreorderItems(h, Tail(items), path)

\* The nodes of the tree that was written.
Nodes == Preorder(heap, arcs[TheArc].files, <<>>)

\* The record with index i (from 0) of the bytes written.
Record(i) == LoadEntry(stream, FstOffset + EntrySize * i)

\* The indices of the records of files.
FileIndices == {i \in 0..(Len(Nodes) - 1) : ~IsDir(heap, Nodes[i + 1].ref)}

\* The start of the file-data region the header records.
FileStart == FromBE(ReadAt(stream, 12, 4))

Written == stream /= <<>>

DataOf(i) == heap[Nodes[i + 1].ref].data
PaddingOf(i) == (Boundary - (Len(DataOf(i)) % Boundary)) % Boundary
\* Where the bytes and the padding of file record i end.
EndOf(i) == Record(i).parent_or_file_off + Len(DataOf(i)) + PaddingOf(i)

\* File record i holds the place of its file's bytes, which are followed by exactly
\* the padding: after it the next file starts, or the output ends.
FilePadded(i) ==
    /\ ReadAt(stream, Record(i).parent_or_file_off, Len(DataOf(i))) = DataOf(i)
    /\ ReadAt(stream, Record(i).parent_or_file_off + Len(DataOf(i)), PaddingOf(i))
            = Rep(0, PaddingOf(i))
    /\ IF \E j \in FileIndices : j > i
       THEN \E j \in FileIndices :
                /\ j > i
                /\ \A k \in FileIndices : k > i => j <= k
                /\ Record(j).parent_or_file_off = EndOf(i)
       ELSE Len(stream) = EndOf(i)

\* C5: in the bytes to_bytes wrote for any tree, the start of the file-data region
\* in the header and the offset in every file record are multiples of 32, and each
\* file's bytes are followed by exactly (32 - length % 32) % 32 zero bytes.
Alignment ==
    Written =>
        /\ FileStart % Boundary = 0
        /\ \A i \in FileIndices :
                /\ Record(i).parent_or_file_off % Boundary = 0
                /\ FilePadded(i)

\* Bytes were written for a tree with a file of 33 bytes followed by a file of 32
\* bytes.
AlignmentWitness ==
    /\ Written
    /\ \E i \in FileIndices, j \in FileIndices :
            /\ i < j
            /\ Len(DataOf(i)) = Boundary + 1
            /\ Len(DataOf(j)) = Boundary

IsProperPrefix(s, t) == Len(s) < Len(t) /\ SubSeq(t, 1, Len(s)) = s

\* Node j is a descendant of node i.
Descendant(i, j) == IsProperPrefix(Nodes[i + 1].path, Nodes[j + 1].path)

\* C6: in the record table to_bytes wrote for any tree, every directory record at
\* index i with bound b has i < b <= total records, the records with index in
\* [i+1, b) are its descendants and no other record is; the bound of the root
\* record is the number of records.
PreorderBounds ==
    Written =>
        /\ Record(0).next_entry_or_len = Len(Nodes)
        /\ \A i \in 0..(Len(Nodes) - 1) :
                IsDir(heap, Nodes[i + 1].ref) =>
                    /\ Record(i).is_dir
                    /\ i < Record(i).next_entry_or_len
                    /\ Record(i).next_entry_or_len <= Len(Nodes)
                    /\ \A j \in 0..(Len(Nodes) - 1) :
                            (i + 1 <= j /\ j < Record(i).next_entry_or_len)
                                <=> Descendant(i, j)

\* Bytes were written for a tree with a directory that holds a node and is followed
\* by a sibling: its bound lies between its first child and the number of records.
PreorderBoundsWitness ==
    /\ Written
    /\ \E i \in 1..(Len(Nodes) - 1) :
            /\ IsDir(heap, Nodes[i + 1].ref)
            /\ i + 1 < Record(i).next_entry_or_len
            /\ Record(i).next_entry_or_len < Len(Nodes)

\* -------------------------------------------------------------------- C11
\* The node at path q is in the tree of r what it is in the current tree: present
\* in both or in neither, of the same kind and content, a directory holding the
\* same names in the same order except the name removed at the path gone.
NodeSameBut(q, gone, r) ==
    /\ Resolves(r.heap, r.arcs, q) <=> Resolves(heap, arcs, q)
    /\ Resolves(heap, arcs, q) =>
        /\ r.heap[Resolve(r.heap, Root(r.arcs), q)].kind
                = heap[Resolve(heap, Root(arcs), q)].kind
        /\ r.heap[Resolve(r.heap, Root(r.arcs), q)].name
                = heap[Resolve(heap, Root(arcs), q)].name
        /\ r.heap[Resolve(r.heap, Root(r.arcs), q)].data
                = heap[Resolve(heap, Root(arcs), q)].data
        /\ DictKeys(r.heap[Resolve(r.heap, Root(r.arcs), q)].items)
                = SelectSeq(DictKeys(heap[Resolve(heap, Root(arcs), q)].items),
                            LAMBDA k : Append(q, k) /= gone)

DeletePost(segs, r) ==
    /\ (segs /= <<>> /\ Resolves(heap, arcs, segs)) =>
        /\ r.status = "ok"
        /\ \A q \in TreePaths :
                IF IsPrefix(segs, q) THEN ~Resolves(r.heap, r.arcs, q)
                ELSE NodeSameBut(q, segs, r)
        /\ NodeSameBut(<<>>, segs, r)
    /\ SegmentMissing(heap, arcs, segs) => r.status = "KeyError"
    /\ Rejected(r) => TreeUnchanged(r)

DeleteWitnessAt(segs, r) ==
    /\ Len(segs) = 1
    /\ ResolvesToDir(heap, arcs, segs)
    /\ \E n \in Names : Resolves(heap, arcs, Append(segs, n))
    /\ Len(DictKeys(heap[Root(arcs)].items)) = 2
    /\ DictKeys(heap[Root(arcs)].items)[1] = segs[1]
    /\ r.status = "ok"
    /\ Len(DictKeys(r.heap[Root(r.arcs)].items)) = 1

CreatedIn(q, dest) ==
    {k \in Names : IsPrefix(Append(q, k), dest) /\ ~Resolves(heap, arcs, Append(q, k))}

\* The node at path q, not below src, is after the call r the object it was, with
\* the same content; a directory holds the names it held, in the same order, less
\* the name moved away and plus the name created for dest.
MoveKeepsNode(q, src, dest, r) ==
    /\ Resolve(r.heap, Root(r.arcs), q) = Resolve(heap, Root(arcs), q)
    /\ NodeKept([heap[Resolve(heap, Root(arcs), q)] EXCEPT !.items = <<>>],
                r.heap[Resolve(heap, Root(arcs), q)])
    /\ SelectSeq(DictKeys(r.heap[Resolve(heap, Root(arcs), q)].items),
                 LAMBDA k : k \notin CreatedIn(q, dest))
            = SelectSeq(DictKeys(heap[Resolve(heap, Root(arcs), q)].items),
                        LAMBDA k : Append(q, k) /= src)

\* The call r (its objects not renumbered) moved the object e from src to dest.
MovedTo(e, src, dest, r) ==
    /\ r.status = "ok"
    /\ \A k \in 0..(Len(dest) - 1) : ResolvesToDir(r.heap, r.arcs, Prefix(dest, k))
    /\ ~Resolves(r.heap, r.arcs, src)
    /\ Resolve(r.heap, Root(r.arcs), dest) = e
    /\ \A c \in Range(Reach(heap, e)) : r.heap[c] = heap[c]
    /\ \A q \in TreePaths \cup {<<>>} :
            /\ (Resolves(heap, arcs, q) /\ ~IsPrefix(src, q)) =>
                    MoveKeepsNode(q, src, dest, r)
            /\ (Resolves(r.heap, r.arcs, q) /\ ~Resolves(heap, arcs, q)) =>
                    \/ IsPrefix(dest, q)
                    \/ /\ IsPrefix(q, Front(dest))
                       /\ DictKeys(r.heap[Resolve(r.heap, Root(r.arcs), q)].items)
                            = <<dest[Len(q) + 1]>>

\* src resolves, dest is another path, no segment before dest's last is a file and
\* the directory dest's last segment goes to does not hold that name.
MoveApplies(src, dest) ==
    /\ src /= <<>>
    /\ dest /= <<>>
    /\ src /= dest
    /\ Resolves(heap, arcs, src)
    /\ ~HitsFile(heap, arcs, Front(dest))
    /\ ~Resolves(heap, arcs, dest)

MovePost(src, dest, r) ==
    MoveApplies(src, dest) => MovedTo(Resolve(heap, Root(arcs), src), src, dest, r)

\* C12: in every reachable tree, for src that resolves and another path dest whose
\* last segment the destination directory does not hold, move(src, dest) succeeds,
\* every segment before dest's last is a directory afterwards, src no longer
\* resolves, dest resolves to the very node that was at src with its bytes or its
\* subtree as they were, and every other node is unchanged.
MoveSuccess ==
    \A src \in PathArgs, dest \in PathArgs :
        MovePost(Segments(src), Segments(dest), MoveOp(heap, arcs, TheArc, src, dest))

MovePostApart(src, dest, r) ==
    (MoveApplies(src, dest) /\ ~IsPrefix(src, dest)) =>
        MovedTo(Resolve(heap, Root(arcs), src), src, dest, r)

\* The same for every dest that does not lie below src.
MoveSuccessApart ==
    \A src \in PathArgs, dest \in PathArgs :
        MovePostApart(Segments(src), Segments(dest),
                      MoveOp(heap, arcs, TheArc, src, dest))

\* A file is moved from a directory into a directory that is created for it.
MoveWitnessAt(src, dest, r) ==
    /\ MoveApplies(src, dest)
    /\ ~IsPrefix(src, dest)
    /\ Len(src) = 2
    /\ Len(dest) = 2
    /\ ResolvesToFile(heap, arcs, src)
    /\ ~Resolves(heap, arcs, Front(dest))
    /\ r.status = "ok"

MoveSuccessApartWitness ==
    \E src \in PathArgs, dest \in PathArgs :
        MoveWitnessAt(Segments(src), Segments(dest),
                      MoveOp(heap, arcs, TheArc, src, dest))

\* -------------------------------------------------------------------- C13
\* The name of node i (from 0) of the tree that was written; the root has none.
NameOf(i) == IF Nodes[i + 1].path = <<>> THEN <<>> ELSE Last(Nodes[i + 1].path)

\* The names of the nodes in traversal order, each followed by NUL.
NameTable == Flat([i \in DOMAIN Nodes |-> NameOf(i - 1) \o <<Nul>>])

\* Where the records end.
RecordsEnd == FstOffset + EntrySize * Len(Nodes)

\* The header fields after the magic.
HeaderFstStart == FromBE(ReadAt(stream, 4, 4))
HeaderFstSize == FromBE(ReadAt(stream, 8, 4))

\* C13: in the bytes to_bytes wrote for any tree, the header gives 0x20 as the
\* start of the records, where the root record lies; its size field is 12 times
\* the number of records plus the length of the name table; the name table lies
\* right after the last record and each record's name offset is where its name
\* starts in it; the file-data start of the header is the end of the name table
\* rounded up to a multiple of 32, and the first file record in traversal order
\* records that offset.
HeaderLayout ==
    Written =>
        /\ HeaderFstStart = FstOffset
        /\ Record(0).is_dir /\ Record(0).next_entry_or_len = Len(Nodes)
        /\ HeaderFstSize = EntrySize * Len(Nodes) + Len(NameTable)
        /\ ReadAt(stream, RecordsEnd, Len(NameTable)) = NameTable
        /\ \A i \in 0..(Len(Nodes) - 1) :
                TakeName(stream, RecordsEnd + Record(i).name_off) = NameOf(i)
        /\ FileStart % Boundary = 0
        /\ RecordsEnd + Len(NameTable) <= FileStart
        /\ FileStart < RecordsEnd + Len(NameTable) + Boundary
        /\ \A i \in FileIndices :
                (\A j \in FileIndices : i <= j) =>
                    Record(i).parent_or_file_off = FileStart

\* Bytes were written for a tree whose first file in traversal order lies in a
\* directory and is followed by another file.
HeaderLayoutWitness ==
    /\ Written
    /\ \E i \in FileIndices, j \in FileIndices :
            /\ i < j
            /\ \A k \in FileIndices : i <= k
            /\ Len(Nodes[i + 1].path) = 2
            /\ Record(i).parent_or_file_off = FileStart
            /\ FileStart > RecordsEnd + Len(NameTable)

\* -------------------------------------------------------------------- C14
\* The number of records the file declares, 0 when its head record is cut.
Declared ==
    IF Len(stream) < HeaderFstStart + EntrySize THEN 0
    ELSE LoadEntry(stream, HeaderFstStart).next_entry_or_len

\* Where the file's name table starts.
NamesStart == HeaderFstStart + EntrySize * Declared

\* Record i of the file (for a file whose records are all there).
RecordAt(i) == LoadEntry(stream, HeaderFstStart + EntrySize * i)

\* The file ends before the end of its header, of its records or of its name
\* table (a file that ends before the end of a file's bytes has a record that
\* points outside it).
Truncated ==
    \/ Len(stream) < FstOffset
    \/ Len(stream) < HeaderFstStart + EntrySize
    \/ Len(stream) < NamesStart
    \/ Len(stream) < HeaderFstStart + HeaderFstSize

\* Record i of the file points outside it: its name starts past the end, its
\* bytes (it is a file) end past the end, or its bound (it is a directory) is not
\* within (i, number of records].
PointsOutside(e, i) ==
    \/ NamesStart + e.name_off >= Len(stream)
    \/ ~e.is_dir /\ e.parent_or_file_off + e.next_entry_or_len > Len(stream)
    \/ e.is_dir /\ ~(i < e.next_entry_or_len /\ e.next_entry_or_len <= Declared)

Malformed ==
    /\ Len(stream) >= 4
    /\ ReadAt(stream, 0, 4) = FileMagic
    /\ \/ Truncated
       \/ \E i \in 1..(Declared - 1) : PointsOutside(RecordAt(i), i)

\* The call r raised and left the archives as they were.
NothingExposed(r) == Rejected(r) /\ r.arcs = arcs

\* C14: from_file on a file with the right magic that is truncated, or has a
\* record whose name offset or file offset and length point outside the file, or
\* a directory record whose bound is not within (i, number of records], raises
\* and gives the caller no archive.
MalformedFatal ==
    Malformed => NothingExposed(FromFileOp(heap, arcs, stream, FileName))

\* C14, the part that holds: a file that ends before the end of its header or of
\* its records is rejected.
RecordsCut ==
    /\ Len(stream) >= 4
    /\ ReadAt(stream, 0, 4) = FileMagic
    /\ \/ Len(stream) < FstOffset /\ Len(stream) < 16
       \/ Len(stream) >= 16 /\ Len(stream) < NamesStart
       \/ Len(stream) >= 16 /\ Len(stream) < HeaderFstStart + EntrySize

CutRecordsFatal ==
    RecordsCut => NothingExposed(FromFileOp(heap, arcs, stream, FileName))

CutRecordsFatalWitness ==
    /\ Len(stream) = FstOffset + EntrySize * 3 - 1
    /\ Declared = 3
    /\ FromFileOp(heap, arcs, stream, FileName).status = "struct.error"

\* -------------------------------------------------------------------- C15
\* The call r raised where the magic is read and compared, no object was made and
\* the archives are as they were.
FailedAtMagic(r) ==
    /\ r.status \in {"AssertionError", "struct.error"}
    /\ r.heap = heap
    /\ r.arcs = arcs

\* C15: from_file on a file whose first 4 bytes are not the magic (or that has
\* fewer than 4 bytes) raises at the magic, before a record is read or an object
\* of a tree is made, and the caller gets no archive.
MagicChecked ==
    (stream /= <<>> /\ ReadAt(stream, 0, 4) /= FileMagic) =>
        FailedAtMagic(FromFileOp(heap, arcs, stream, FileName))

\* from_file raises on a file that differs from the file written for a tree with
\* a file in a directory in one byte of the magic only.
MagicCheckedWitness ==
    /\ Len(stream) > FstOffset + EntrySize * 3
    /\ \E k \in 0..3 : stream = Patch(ToBytesOf(heap, Root(arcs)), k, <<0>>)
    /\ \E q \in TreePaths : Len(q) = 2 /\ ResolvesToFile(heap, arcs, q)
    /\ FromFileOp(heap, arcs, stream, FileName).status = "AssertionError"

\* -------------------------------------------------------------------- C16
\* The File nodes and the Directory nodes (the root not counted) of the tree.
FileNodes == {c \in Range(Reach(heap, Root(arcs))) : ~IsDir(heap, c)}
DirNodes == {c \in Range(Reach(heap, Root(arcs))) : IsDir(heap, c)} \ {Root(arcs)}

\* C16: in every state reached by mutations, len(archive) is the number of File
\* nodes of the tree; directories, empty or not, are not counted.
LenCountsFiles ==
    LenOp(heap, arcs, TheArc).obs = Cardinality(FileNodes)

\* What len(archive) is: the number of File nodes and Directory nodes.
LenCountsNodes ==
    LenOp(heap, arcs, TheArc).obs = Cardinality(FileNodes) + Cardinality(DirNodes)

\* len(archive) was taken of a tree with a file in a directory.
LenCountsNodesWitness ==
    /\ \E q \in TreePaths : Len(q) = 2 /\ ResolvesToFile(heap, arcs, q)
    /\ arcs[TheArc].mod_count = 0
    /\ Len(arcs[TheArc].flat_file_struct) = 2

\* -------------------------------------------------------------------- C17
\* The paths a membership test is made with: strings and lists of strings.
PathItems == ItemArgs \ {NonePath}

\* The call r returned whether the keys resolve.
ContainsAnswers(keys, r) ==
    r.status = "ok" /\ r.obs = Resolves(heap, arcs, keys)

\* C17: in every reachable tree and for every path given as a string or a list
\* of strings, 'path in archive' returns True when the path resolves to a file or
\* a directory and False when it does not, a path through a File included; it
\* never raises.
ContainsTotal ==
    \A item \in PathItems :
        ContainsAnswers(GetItemKeys(item), ContainsOp(heap, arcs, TheArc, item))

ContainsAnswersBut(keys, r) ==
    IF HitsFile(heap, arcs, Front(keys)) THEN r.status = "TypeError"
    ELSE ContainsAnswers(keys, r)

\* What the code does: the test raises TypeError for a path through a File and
\* answers for every other path.
ContainsButThroughFile ==
    \A item \in PathItems :
        ContainsAnswersBut(GetItemKeys(item), ContainsOp(heap, arcs, TheArc, item))

\* The test is made with a path through a File.
ContainsThroughFileWitness ==
    \E item \in PathItems :
        /\ Len(GetItemKeys(item)) = 2
        /\ HitsFile(heap, arcs, Front(GetItemKeys(item)))
        /\ ContainsOp(heap, arcs, TheArc, item).status = "TypeError"

\* -------------------------------------------------------------------- C18
\* The nodes of the tree of archive a below its root, each with its path.
NodesBelow(a) == Tail(Preorder(heap, arcs[a].files, <<>>))

\* The key of the node at path in the index of archive a: the display name and
\* the names on the path, joined by '/'.
IndexKey(a, path) == JoinSlash(<<ArcNameOf(arcs[a])>> \o path)

\* The entries the claim gives the index of archive a: every File node with its
\* file and, in the map with directories, every Directory node with the marker.
IndexEntries(ns, a, include_dirs) ==
    {[key |-> IndexKey(a, ns[i].path),
      val |-> IF IsDir(heap, ns[i].ref) THEN NoneEntry ELSE heap[ns[i].ref]] :
        i \in {j \in DOMAIN ns : include_dirs \/ ~IsDir(heap, ns[j].ref)}}

\* The map m holds the entries S, each once.
HoldsExactly(m, S) == Range(m) = S /\ Len(m) = Cardinality(S)

\* The maps of archive a after _update (A1) are what the claim says.
IndexContentOf(A1, a) ==
    /\ HoldsExactly(A1[a].only_files, IndexEntries(NodesBelow(a), a, FALSE))
    /\ HoldsExactly(A1[a].flat_file_struct, IndexEntries(NodesBelow(a), a, TRUE))

\* C18: for every archive, created empty or read from a file, the maps a rebuild
\* leaves hold, in the files-only map, exactly one entry per File node, keyed by
\* the display name joined with the names on the path to the file and holding the
\* file, and in the map with directories those entries and exactly one marker per
\* Directory node below the root, the empty directories included.
IndexContent ==
    \A a \in DOMAIN arcs : IndexContentOf(Update(heap, arcs, a), a)

\* The same for the archives whose source name has no directory part.
IndexContentPlain ==
    \A a \in DOMAIN arcs :
        ~InSeq(Slash, arcs[a].arc_name) => IndexContentOf(Update(heap, arcs, a), a)

\* An archive read from a file named without a directory holds a file in a
\* directory and an empty directory.
IndexContentPlainWitness ==
    /\ Len(arcs) = 2
    /\ arcs[2].arc_name = FileName
    /\ Len(arcs[2].only_files) = 1
    /\ Len(arcs[2].flat_file_struct) = 3
    /\ \E i \in DOMAIN arcs[2].only_files : Len(arcs[2].only_files[i].key) = 5

\* -------------------------------------------------------------------- C19
\* The record table of the bytes written: the number of records, where the
\* records end and the name table starts, and the name of record i.
Total == RecordsIn(stream)
TableEnd == FstOffset + EntrySize * Total
NameAt(i) == TakeName(stream, TableEnd + Record(i).name_off)

\* The directory records before record i whose bound exceeds i.
Enclosing(i) == {j \in 1..(i - 1) : Record(j).is_dir /\ Record(j).next_entry_or_len > i}

\* The nearest of them, the root record when there is none.
ParentOf(i) ==
    IF Enclosing(i) = {} THEN 0
    ELSE CHOOSE j \in Enclosing(i) : \A k \in Enclosing(i) : k <= j

RECURSIVE PathOf(_)
\* The path the table gives record i: the names from the root down its parents.
PathOf(i) == IF i = 0 THEN <<>> ELSE Append(PathOf(ParentOf(i)), NameAt(i))

\* The nodes of the tree read from the bytes.
DecodedNodes == Preorder(heap, arcs[2].files, <<>>)

\* Record i is a node of the tree D at the path the table gives it.
InsertedAt(D, i) ==
    \E k \in DOMAIN D :
        /\ D[k].path = PathOf(i)
        /\ IsDir(heap, D[k].ref) = Record(i).is_dir

\* load_dir on directory record i of the bytes left no directory on its stack.
StackClosed(i) ==
    LoadDir(stream, OpenArc(stream, FstOffset, Total), TableEnd, heap, i).dir_stack = <<>>

NestingOf(D) ==
    /\ Len(D) = Total
    /\ \A i \in 1..(Total - 1) : InsertedAt(D, i)
    /\ \A i \in 1..(Total - 1) :
            (Record(i).is_dir /\ ParentOf(i) = 0) => StackClosed(i)

\* C19: in the tree read from the bytes to_bytes wrote for any tree, every record
\* with index in [1, number of records) is a node, the tree has no other node
\* below its root, the node of record i is a child of the node of the nearest
\* directory record before i whose bound exceeds i, or of the root when there is
\* none, and every load_dir ended with its stack of open directories empty.
NestingRebuilt ==
    Decoded => NestingOf(DecodedNodes)

\* The bytes read hold a directory and its last child, a directory with a child
\* too, that end at the same record, which is a sibling of the outer one inside a
\* directory: two directories are popped after one record.
NestingRebuiltWitness ==
    /\ Decoded
    /\ \E i \in 2..(Total - 1), j \in 2..(Total - 1) :
            /\ ParentOf(i) /= 0
            /\ ParentOf(j) = i
            /\ Record(i).is_dir /\ Record(j).is_dir
            /\ Record(j).next_entry_or_len > j + 1
            /\ Record(i).next_entry_or_len = Record(j).next_entry_or_len
            /\ Record(i).next_entry_or_len < Total
            /\ ParentOf(Record(i).next_entry_or_len) = ParentOf(i)

\* -------------------------------------------------------------------- C20
\* The bytes of the file read for record i.
DecodedData(i) == heap[Resolve(heap, arcs[2].files, PathOf(i))].data

\* The bytes the record i places: next_entry_or_len bytes at parent_or_file_off.
PlacedData(i) ==
    ReadAt(stream, Record(i).parent_or_file_off, Record(i).next_entry_or_len)

\* C20: in the tree read from the bytes to_bytes wrote for any tree, the bytes of
\* the File of every file record, directly under the root or inside a directory,
\* are the bytes of the stream at the record's offset, of the record's length.
FileBytesPlaced ==
    Decoded =>
        \A i \in 1..(Total - 1) : ~Record(i).is_dir => DecodedData(i) = PlacedData(i)

\* The same for the file records inside a directory.
FileBytesPlacedBelow ==
    Decoded =>
        \A i \in 1..(Total - 1) :
            (~Record(i).is_dir /\ ParentOf(i) /= 0) => DecodedData(i) = PlacedData(i)

\* The bytes read hold two files of 33 and of 1 byte inside a directory.
FileBytesPlacedBelowWitness ==
    /\ Decoded
    /\ \E i \in 1..(Total - 1), j \in 1..(Total - 1) :
            /\ ~Record(i).is_dir /\ ~Record(j).is_dir
            /\ ParentOf(i) /= 0 /\ ParentOf(j) /= 0
            /\ Len(DecodedData(i)) = Boundary + 1
            /\ Len(DecodedData(j)) = 1

\* -------------------------------------------------------------------- C21
\* The outcomes of every call of the mutation API on the current state.
MutationOutcomes ==
    {Outcome(MkdirOp(heap, arcs, TheArc, p)) : p \in PathArgs}
    \cup {Outcome(AppendFileOp(heap, arcs, TheArc, x[1], x[2], x[3])) :
            x \in Names \X DataInputs \X PathArgs}
    \cup {Outcome(RenameOp(heap, arcs, TheArc, x[1], x[2])) : x \in PathArgs \X Names}
    \cup {Outcome(DeleteOp(heap, arcs, TheArc, p)) : p \in PathArgs}
    \cup {Outcome(MoveOp(heap, arcs, TheArc, x[1], x[2])) : x \in PathArgs \X PathArgs}
    \cup {Outcome(SetItemOp(heap, arcs, TheArc, x[1], x[2])) :
            x \in KeyArgs \X (FreshValues \cup {ArcValue(TheArc)})}

\* A read of the flat index: the archives the call r leaves and the assignments
\* it makes to the two maps.
ReadOf(reader, r, builds) == [reader |-> reader, arcs |-> r.arcs, builds |-> builds]

\* The reads of every reader on the current state.
Reads ==
    {ReadOf("get_all_files", GetAllFilesOp(heap, arcs, TheArc), UpdateBuilds(arcs, TheArc)),
     ReadOf("len", LenOp(heap, arcs, TheArc), UpdateBuilds(arcs, TheArc)),
     ReadOf("iter", IterOp(heap, arcs, TheArc), IterBuilds),
     ReadOf("to_dir", ToDirOp(heap, arcs, TheArc),
            ToDirBuilds(arcs, Update(heap, arcs, TheArc), TheArc)),
     ReadOf("str", StrOp(heap, arcs, TheArc), UpdateBuilds(arcs, TheArc))}
    \cup {ReadOf("getitem", GetItemOp(heap, arcs, TheArc, item),
                 UpdateBuilds(arcs, TheArc)) : item \in ItemArgs}
    \cup {ReadOf("contains", ContainsOp(heap, arcs, TheArc, item),
                 UpdateBuilds(arcs, TheArc)) : item \in ItemArgs}

\* A successful mutation leaves the counter above zero.
CounterRaised(r) == r.status = "ok" => r.arcs[TheArc].mod_count > 0

\* A rejected mutation that left the tree as it was left the counter as it was.
CounterKept(r) ==
    (Rejected(r) /\ TreeUnchanged(r)) =>
        r.arcs[TheArc].mod_count = arcs[TheArc].mod_count

\* The read x, made with mutations pending, built each map once from the current
\* tree and reset the counter; made with none pending, it built nothing and left
\* the archive as it was.
ReadRebuilds(x) ==
    IF arcs[TheArc].mod_count > 0
    THEN /\ x.builds = [only_files |-> 1, flat_file_struct |-> 1]
         /\ x.arcs[TheArc].mod_count = 0
         /\ x.arcs[TheArc].only_files = FreshFiles
         /\ x.arcs[TheArc].flat_file_struct = FreshStruct
    ELSE /\ x.builds = [only_files |-> 0, flat_file_struct |-> 0]
         /\ x.arcs = arcs

\* C21: in every state reached by mutations and readers, every successful mutation
\* (mkdir, append_file, rename, delete, move, item assignment) leaves the
\* modification counter above zero; a read of the index with the counter above
\* zero rebuilds each of the two maps exactly once and resets the counter; a read
\* with the counter at zero rebuilds nothing; a rejected mutation that left the
\* tree unchanged leaves the counter unchanged.
CounterProtocol ==
    /\ \A r \in MutationOutcomes : CounterRaised(r) /\ CounterKept(r)
    /\ \A x \in Reads : ReadRebuilds(x)

\* The protocol of the calls that follow it: AttributeError is what an item
\* assignment of a value without a name to the key of a directory raises; iteration
\* calls no _update; to_dir builds an empty map with directories on every call.
CounterProtocolApart ==
    /\ \A r \in MutationOutcomes :
            CounterRaised(r) /\ (r.status /= "AttributeError" => CounterKept(r))
    /\ \A x \in Reads :
            (/\ x.reader /= "iter"
             /\ ~(x.reader = "to_dir" /\ FreshStruct = <<>>)) => ReadRebuilds(x)

\* A read is made with mutations pending on a tree that holds a node, and an item
\* assignment is rejected for its value (ValueError) with the tree unchanged.
CounterProtocolApartWitness ==
    /\ arcs[TheArc].mod_count > 1
    /\ FreshStruct /= <<>>
    /\ arcs[TheArc].flat_file_struct /= FreshStruct
    /\ \E r \in MutationOutcomes : r.status = "ValueError" /\ TreeUnchanged(r)

\* -------------------------------------------------------------------- C22
\* The call r of to_bytes on archive a left every object as it was and returned
\* the bytes it returns with the index of a refreshed (bytes).
EncoderFrameAt(a, r, bytes) ==
    /\ r.status = "ok"
    /\ r.heap = heap
    /\ r.arcs = arcs
    /\ r.obs = bytes

\* C22: on every archive, its index fresh or stale, to_bytes leaves the tree, both
\* index maps and the modification counter unchanged, and returns the bytes it
\* returns when the index is refreshed first.
EncoderFrame ==
    \A a \in DOMAIN arcs :
        EncoderFrameAt(a, ToBytesOp(heap, arcs, a),
                       ToBytesOp(heap, Update(heap, arcs, a), a).obs)

\* to_bytes is called on an archive whose maps are stale and whose tree holds a file
\* in a directory, and on an archive whose maps are fresh and hold that file.
EncoderFrameWitness ==
    /\ Decoded
    /\ arcs[1].mod_count > 0
    /\ arcs[1].only_files /= FlattenFileMap(heap, arcs[1], FALSE)
    /\ arcs[2].mod_count = 0
    /\ arcs[2].only_files = FlattenFileMap(heap, arcs[2], FALSE)
    /\ \E q \in TreePaths : Len(q) = 2 /\ ResolvesToFile(heap, arcs, q)
    /\ ToBytesOp(heap, arcs, 1).obs = ToBytesOp(heap, arcs, 2).obs

\* -------------------------------------------------------------------- C23
\* Segment lists a caller can pass: names and empty segments, one segment more
\* than the longest path of names.
SegLists == SeqUpTo(Names \cup {<<>>}, MaxDepth + 1)

\* The list without its empty segments.
NonEmptySegs(segs) == SelectSeq(segs, LAMBDA seg : seg /= <<>>)

\* The two forms of the path with the segments segs.
AsList(segs) == ListPath(segs)
AsString(segs) == StrPath(JoinSlash(segs))

\* No node of the tree is stored under the empty string.
NoEmptyName(h) == \A c \in DOMAIN h : \A i \in DOMAIN h[c].items : h[c].items[i].key /= <<>>

\* The calls r1 and r2 had the same effect and the same result, and created no
\* node named by the empty string.
SameCall(r1, r2) ==
    /\ r1.status = r2.status
    /\ r1.heap = r2.heap
    /\ r1.arcs = r2.arcs
    /\ r1.status = "ok" => r1.obs = r2.obs
    /\ NoEmptyName(r1.heap)
    /\ NoEmptyName(r2.heap)

\* Each operation that takes one path, called with the paths p1 and p2.
SamePathCalls(p1, p2) ==
    /\ SameCall(MkdirOp(heap, arcs, TheArc, p1), MkdirOp(heap, arcs, TheArc, p2))
    /\ \A n \in Names, d \in DataInputs :
            SameCall(AppendFileOp(heap, arcs, TheArc, n, d, p1),
                     AppendFileOp(heap, arcs, TheArc, n, d, p2))
    /\ \A n \in Names :
            SameCall(RenameOp(heap, arcs, TheArc, p1, n), RenameOp(heap, arcs, TheArc, p2, n))
    /\ SameCall(DeleteOp(heap, arcs, TheArc, p1), DeleteOp(heap, arcs, TheArc, p2))

SameLookup(p1, p2) ==
    SameCall(GetItemOp(heap, arcs, TheArc, p1), GetItemOp(heap, arcs, TheArc, p2))

SameMove(s1, d1, s2, d2) ==
    SameCall(MoveOp(heap, arcs, TheArc, s1, d1), MoveOp(heap, arcs, TheArc, s2, d2))

\* C23: in every reachable tree, for each of mkdir, append_file, rename, delete,
\* move and path lookup, a segment list and its '/'-joined string have the same
\* effect and result, a list or string with empty segments has the effect and
\* result of the list without them, and no call creates a node whose name is the
\* empty string.
PathForms ==
    /\ \A segs \in SegLists :
            /\ SamePathCalls(AsList(segs), AsString(segs))
            /\ SamePathCalls(AsList(segs), AsList(NonEmptySegs(segs)))
            /\ SameLookup(AsList(segs), AsString(segs))
            /\ SameLookup(AsList(segs), AsList(NonEmptySegs(segs)))
    /\ \A src \in SegLists, dest \in SegLists :
            /\ SameMove(AsList(src), AsList(dest), AsString(src), AsString(dest))
            /\ SameMove(AsList(src), AsList(dest),
                        AsList(NonEmptySegs(src)), AsList(NonEmptySegs(dest)))

\* The equivalence for the strings and for the lists without empty segments: a
\* string has the effect and result of the list of its non-empty segments (for
\* lookup, when one is left), and no such call creates a node named by the empty
\* string.
PathFormsPlain ==
    /\ \A segs \in SegLists :
            /\ SamePathCalls(AsString(segs), AsList(NonEmptySegs(segs)))
            /\ NonEmptySegs(segs) /= <<>> =>
                    SameLookup(AsString(segs), AsList(NonEmptySegs(segs)))
    /\ \A src \in SegLists, dest \in SegLists :
            SameMove(AsString(src), AsString(dest),
                     AsList(NonEmptySegs(src)), AsList(NonEmptySegs(dest)))

\* A string with an empty segment names a file two levels down, which a lookup
\* finds and a move takes to the root.
PathFormsPlainWitness ==
    \E segs \in SegLists :
        /\ Len(NonEmptySegs(segs)) = 2
        /\ Len(segs) > 2
        /\ ResolvesToFile(heap, arcs, NonEmptySegs(segs))
        /\ GetItemOp(heap, arcs, TheArc, AsString(segs)).status = "ok"
        /\ \E n \in Names :
                MoveOp(heap, arcs, TheArc, AsString(segs), AsString(<<n>>)).status = "ok"

\* -------------------------------------------------------------------- C24
\* The index of the record of the directory that holds node i (i > 0).
ParentIndex(i) ==
    CHOOSE j \in 0..(Len(Nodes) - 1) : Nodes[j + 1].path = Front(Nodes[i + 1].path)

\* C24: in the record table to_bytes wrote for any tree, the field a of every
\* directory record is the index of the record of its parent directory, and the
\* field a of the root record is 0.
ParentField ==
    Written =>
        /\ Record(0).is_dir
        /\ Record(0).parent_or_file_off = 0
        /\ \A i \in 1..(Len(Nodes) - 1) :
                IsDir(heap, Nodes[i + 1].ref) =>
                    /\ Record(i).is_dir
                    /\ Record(i).parent_or_file_off = ParentIndex(i)

\* Bytes were written for a tree with a directory whose parent is neither the root
\* nor the record before it.
ParentFieldWitness ==
    /\ Written
    /\ \E i \in 1..(Len(Nodes) - 1) :
            /\ IsDir(heap, Nodes[i + 1].ref)
            /\ ParentIndex(i) > 0
            /\ ParentIndex(i) < i - 1
            /\ Record(i).parent_or_file_off = ParentIndex(i)

\* -------------------------------------------------------------------- C25
\* The call r was rejected and left every object (the tree, both index maps, the
\* counter) as it was.
RejectedUntouched(r) ==
    /\ Rejected(r)
    /\ r.heap = heap
    /\ r.arcs = arcs

\* C25: on every archive, the assignment archive[key] = archive raises an error,
\* whatever the key, and leaves the tree, both index maps and the modification
\* counter as they were.
SelfAssignRejected ==
    \A a \in DOMAIN arcs, key \in KeyArgs :
        RejectedUntouched(SetItemOp(heap, arcs, a, key, ArcValue(a)))

\* An archive whose index holds an entry is assigned to the key of one of its
\* directories, and an archive with mutations pending to a key it does not hold;
\* both assignments raise RecursionError.
SelfAssignRejectedWitness ==
    /\ Decoded
    /\ arcs[1].mod_count > 0
    /\ arcs[2].flat_file_struct /= <<>>
    /\ \E n \in Names :
            /\ DictHas(heap[arcs[2].files].items, n)
            /\ IsDir(heap, DictGet(heap[arcs[2].files].items, n))
            /\ SetItemOp(heap, arcs, 2, StrPath(n), ArcValue(2)).status = "RecursionError"
    /\ \E n \in Names :
            /\ ~DictHas(heap[arcs[1].files].items, n)
            /\ SetItemOp(heap, arcs, 1, StrPath(n), ArcValue(1)).status = "RecursionError"

\* -------------------------------------------------------------------- C26
\* The names a node is renamed to: the names of the tree and one more ('c'), so
\* that a node with a sibling can be renamed.
NewNames == Names \cup {<<99>>}

\* The index of the record to_bytes writes for the node at the path segs.
RecordIndexOf(segs) == CHOOSE i \in 0..(Len(Nodes) - 1) : Nodes[i + 1].path = segs

\* The tables of step 1 of to_bytes are those of the current tree (T) but for the
\* name of record i.
SameRecordsBut(T, T2, i, new_name) ==
    /\ T2.fst_entries = T.fst_entries
    /\ T2.file_map = T.file_map
    /\ T2.names = [T.names EXCEPT ![i + 1] = new_name]

\* After the successful rename r of the entry at position pos of the directory
\* parent, that entry has the new key at the same position and nothing else
\* differs: the other entries, their order, every other directory, the renamed
\* object and everything below it.
RenamedInPlace(r, parent, pos, new_name) ==
    /\ r.heap = [heap EXCEPT ![parent].items[pos].key = new_name]
    /\ Root(r.arcs) = Root(arcs)

RenamePost(segs, new_name, r) ==
    r.status = "ok" =>
        /\ RenamedInPlace(r, Resolve(heap, Root(arcs), Front(segs)),
                          DictPos(heap[Resolve(heap, Root(arcs), Front(segs))].items,
                                  Last(segs)),
                          new_name)
        /\ SameRecordsBut(BuildFst(heap, Root(arcs)), BuildFst(r.heap, Root(r.arcs)),
                          RecordIndexOf(segs), new_name)

\* C26: in every reachable tree, a successful rename(path, new_name) leaves the
\* renamed node at its position among its siblings under the new name, leaves the
\* order of the siblings, every other name and the content of every node (file
\* bytes, subtrees) as they were, and the records to_bytes builds are those of
\* the tree before the call but for the name of the renamed node's record.
RenameInPlace ==
    \A path \in PathArgs, n \in NewNames :
        RenamePost(Segments(path), n, RenameOp(heap, arcs, TheArc, path, n))

\* A directory that holds a node and is followed by a sibling is renamed.
RenameInPlaceWitness ==
    \E path \in PathArgs, n \in NewNames :
        /\ Segments(path) /= <<>>
        /\ ResolvesToDir(heap, arcs, Segments(path))
        /\ heap[Resolve(heap, Root(arcs), Segments(path))].items /= <<>>
        /\ DictPos(heap[Resolve(heap, Root(arcs), Front(Segments(path)))].items,
                   Last(Segments(path)))
                < Len(heap[Resolve(heap, Root(arcs), Front(Segments(path)))].items)
        /\ RenameOp(heap, arcs, TheArc, path, n).status = "ok"

\* -------------------------------------------------------------------- C27
\* Every ArcFile a directory of h holds has the name of its entry.
NamesMatchKeys(h) ==
    \A c \in DOMAIN h : \A i \in DOMAIN h[c].items :
        ~IsDir(h, h[c].items[i].val) => h[h[c].items[i].val].name = h[c].items[i].key

\* C27: in every state reached by append_file, rename, move, item assignment and
\* the other mutations (and, under SpecCodec, by decoding), the name field of
\* every File node is the key under which its directory holds it.
NamesConsistent == NamesMatchKeys(heap)

\* -------------------------------------------------------------------- C28
\* The byte range file record i names: its first offset and the offset after its
\* last.
StartOf(i) == Record(i).parent_or_file_off
StopOf(i) == Record(i).parent_or_file_off + Record(i).next_entry_or_len

\* The range of file record i lies in the file-data region of the output and holds
\* the bytes of its file.
RangeHoldsFile(i) ==
    /\ ~Record(i).is_dir
    /\ Record(i).next_entry_or_len = Len(DataOf(i))
    /\ FileStart <= StartOf(i)
    /\ StopOf(i) <= Len(stream)
    /\ SubSeq(stream, StartOf(i) + 1, StopOf(i)) = DataOf(i)

\* The ranges of the file records i and j, i written first, are in that order and,
\* if neither is empty, apart.
RangesApart(i, j) ==
    /\ StartOf(i) <= StartOf(j)
    /\ (StartOf(i) < StopOf(i) /\ StartOf(j) < StopOf(j)) =>
            (StopOf(i) <= StartOf(j) \/ StopOf(j) <= StartOf(i))

\* C28: in the bytes to_bytes wrote for any tree, the range [a, a + length) of
\* every file record lies between the file-data start of the header and the end
\* of the output and holds exactly that file's bytes, the offsets of the file
\* records do not decrease in traversal order, and the ranges of two non-empty
\* files do not overlap.
FileRanges ==
    Written =>
        /\ FileStart <= Len(stream)
        /\ \A i \in FileIndices : RangeHoldsFile(i)
        /\ \A i \in FileIndices, j \in FileIndices : i < j => RangesApart(i, j)

\* Bytes were written for a tree with a file of 33 bytes in a directory, followed
\* by a file with bytes: the second range starts after the padding of the first.
FileRangesWitness ==
    /\ Written
    /\ \E i \in FileIndices, j \in FileIndices :
            /\ i < j
            /\ Len(Nodes[i + 1].path) = 2
            /\ Len(DataOf(i)) = Boundary + 1
            /\ Len(DataOf(j)) > 0
            /\ StopOf(i) < StartOf(j)
            /\ StopOf(j) <= Len(stream)

====
